---- MODULE Spec2Model ----
(***************************************************************************)
(* Marathon scoreboard: scoring, aggregation and the admin operations on   *)
(* the team collection.                                                    *)
(*                                                                         *)
(* Encoding of JavaScript values.                                          *)
(*   - A plain object is a TLA+ function whose domain is its set of keys   *)
(*     (a record); a key that is not in the domain reads as undefined.     *)
(*   - An array is wrapped: Arr(s) = [isArray |-> TRUE, items |-> s], so   *)
(*     that Array.isArray can tell [] from {}.                             *)
(*   - Points are rational multiples of 0.25 (the smallest weight), so     *)
(*     every point value is kept in quarter points: 72 is 288, 0.25 is 1.  *)
(*     Sums and products of these values are exact in IEEE doubles, so the *)
(*     integer arithmetic below is the arithmetic of the program.          *)
(*   - A number that may be NaN is [nan |-> BOOLEAN, v |-> Int].           *)
(*   - null, undefined and '' for a date are all the empty string NoDate   *)
(*     (the code only tests the date for truthiness and for equality).     *)
(***************************************************************************)
EXTENDS Integers, Sequences, FiniteSets, TLC

\* ------------------------------------------------------------------ bounds

\* Largest count drawn for one category of a book-count mapping.
MaxCount == 2
\* Largest number of dated entries drawn for a history.
MaxEntries == 2
\* Largest number of teams in a team collection drawn for the ranked view.
MaxViewTeams == 3
\* Largest number of teams in a team collection drawn for the chart.
MaxChartTeams == 11
\* Largest number of writing operations the admin session starts, on top of
\* what earlier sessions have left in the store.
MaxWrites == 1

\* The leaders collection holds at most this many documents.
MaxLeaders == 3

\* ------------------------------------------------------- program constants

\* Object.keys(BOOK_VALUES), in insertion order.
BOOK_TYPES == <<"Bhagavatam", "CC", "MBB", "BB", "MB", "SB">>

\* The point weights 72, 36, 2, 1, 0.5, 0.25, in quarter points.
BOOK_VALUES ==
  [Bhagavatam |-> 288, CC |-> 144, MBB |-> 8, BB |-> 4, MB |-> 2, SB |-> 1]

\* MBB-equivalents of one book of each category.
BOOK_EQUIV ==
  [Bhagavatam |-> 18, CC |-> 9, MBB |-> 1, BB |-> 1, MB |-> 1, SB |-> 1]

\* ------------------------------------------------------------ JS helpers

NoDate == ""

Truthy(s) == s # NoDate

Arr(s) == [isArray |-> TRUE, items |-> s]

IsArray(x) == "isArray" \in DOMAIN x

\* obj[key] || 0 for a count: undefined and 0 both give 0.
OrZero(obj, key) == IF key \in DOMAIN obj THEN obj[key] ELSE 0

\* { date: d, ...books }: the keys of books come last and win.
WithDate(d, books) ==
  [k \in {"date"} \cup DOMAIN books |-> IF k \in DOMAIN books THEN books[k] ELSE d]

\* entry.date === d; an entry without a date has date undefined.
DateIs(entry, d) == "date" \in DOMAIN entry /\ entry.date = d

RangeOf(s) == {s[i] : i \in 1..Len(s)}

\* {} : the object with no keys.
EmptyObject == [k \in {} |-> 0]

\* { ...a, ...b }: the keys of b win.
Spread(a, b) ==
  [k \in DOMAIN a \cup DOMAIN b |-> IF k \in DOMAIN b THEN b[k] ELSE a[k]]

\* null, for a state that holds an object or null.
Null == [isNull |-> TRUE]

\* Text is a sequence of one-character strings, so that its characters can
\* be compared and changed.
UpperLetters ==
  <<"A", "B", "C", "D", "E", "F", "G", "H", "I", "J", "K", "L", "M",
    "N", "O", "P", "Q", "R", "S", "T", "U", "V", "W", "X", "Y", "Z">>

LowerLetters ==
  <<"a", "b", "c", "d", "e", "f", "g", "h", "i", "j", "k", "l", "m",
    "n", "o", "p", "q", "r", "s", "t", "u", "v", "w", "x", "y", "z">>

\* The lower-case letter of every upper-case letter.
LowerOf ==
  [c \in RangeOf(UpperLetters) |->
     LowerLetters[CHOOSE i \in 1..Len(UpperLetters) : UpperLetters[i] = c]]

ToLowerChar(c) == IF c \in DOMAIN LowerOf THEN LowerOf[c] ELSE c

\* Mutant: the text is left in the case it was typed in.
toLowerCaseSkipped(text) == text

\* String.prototype.toLowerCase.
toLowerCase(text) == [i \in 1..Len(text) |-> ToLowerChar(text[i])]

\* String.prototype.includes: part occurs in text at some offset.
includes(text, part) ==
  \E off \in 0..(Len(text) - Len(part)) :
    \A k \in 1..Len(part) : text[off + k] = part[k]

Digits == <<"0", "1", "2", "3", "4", "5", "6", "7", "8", "9">>

IsDigit(c) == \E d \in 1..Len(Digits) : Digits[d] = c

DigitValue(c) == (CHOOSE d \in 1..Len(Digits) : Digits[d] = c) - 1

\* The value of the longest run of digits at the head of text, after acc.
RECURSIVE LeadingDigits(_, _)
LeadingDigits(text, acc) ==
  IF text = <<>> \/ ~IsDigit(Head(text)) THEN acc
  ELSE LeadingDigits(Tail(text), 10 * acc + DigitValue(Head(text)))

\* parseInt(text) of the text of a number input: an optional sign and the
\* digits up to the first other character; NaN when there is no digit.
parseInt(text) ==
  LET negative == text # <<>> /\ Head(text) = "-"
      unsigned == IF negative THEN Tail(text) ELSE text
  IN  IF unsigned = <<>> \/ ~IsDigit(Head(unsigned))
      THEN [nan |-> TRUE, v |-> 0]
      ELSE [nan |-> FALSE,
            v |-> IF negative THEN 0 - LeadingDigits(unsigned, 0)
                  ELSE LeadingDigits(unsigned, 0)]

\* parseInt(text) || 0
ParsedOrZero(text) == IF parseInt(text).nan THEN 0 ELSE parseInt(text).v

Max(a, b) == IF a >= b THEN a ELSE b

\* String.prototype.trim, for the blanks of this model: is anything left?
TrimIsEmpty(text) == \A i \in 1..Len(text) : text[i] = " "

\* --------------------------------------------------------- Stats Calculator

ZeroStats == [totalBooks |-> 0, totalPoints |-> 0]

\* Mutant: totalBooks adds the count itself, without the equivalence factor.
AddBookTypeRaw(acc, obj, bookType) ==
  LET count == OrZero(obj, bookType)
  IN  [totalBooks  |-> acc.totalBooks + count,
       totalPoints |-> acc.totalPoints + count * BOOK_VALUES[bookType]]

\* One turn of Object.keys(BOOK_VALUES).forEach(bookType => ...).
AddBookType(acc, obj, bookType) ==
  LET count == OrZero(obj, bookType)
  IN  [totalBooks  |-> acc.totalBooks + count * BOOK_EQUIV[bookType],
       totalPoints |-> acc.totalPoints + count * BOOK_VALUES[bookType]]

RECURSIVE ForEachBookType(_, _, _)
ForEachBookType(acc, obj, i) ==
  IF i > Len(BOOK_TYPES) THEN acc
  ELSE ForEachBookType(AddBookType(acc, obj, BOOK_TYPES[i]), obj, i + 1)

\* Mutant: every entry overwrites the totals instead of adding to them.
ForEachEntryLastOnly(acc, entries, i) ==
  IF Len(entries) = 0 THEN acc
  ELSE ForEachBookType(ZeroStats, entries[Len(entries)], 1)

\* filteredEntries.forEach(entry => ...), from entry i on.
RECURSIVE ForEachEntry(_, _, _)
ForEachEntry(acc, entries, i) ==
  IF i > Len(entries) THEN acc
  ELSE ForEachEntry(ForEachBookType(acc, entries[i], 1), entries, i + 1)

\* Mutant: the date filter is not applied.
FilterEntriesAll(items, specificDate) == items

\* booksData.filter(entry => entry.date === specificDate), or booksData itself.
FilterEntries(items, specificDate) ==
  IF Truthy(specificDate)
  THEN SelectSeq(items, LAMBDA entry : DateIs(entry, specificDate))
  ELSE items

calculateStats(booksData, specificDate) ==
  IF ~IsArray(booksData)
  THEN ForEachBookType(ZeroStats, booksData, 1)
  ELSE ForEachEntry(ZeroStats, FilterEntries(booksData.items, specificDate), 1)

\* ------------------------------------ Stats Calculator, first version (App.js)

Num(n) == [nan |-> FALSE, v |-> n]

NaN == [nan |-> TRUE, v |-> 0]

\* a + b and a * b on numbers that may be NaN.
NumAdd(a, b) == IF a.nan \/ b.nan THEN NaN ELSE Num(a.v + b.v)

NumMul(a, b) == IF a.nan \/ b.nan THEN NaN ELSE Num(a.v * b.v)

\* BOOK_VALUES[bookType]: undefined for a key that is no category, and a
\* product with undefined is NaN.
WeightOf(bookType) ==
  IF bookType \in DOMAIN BOOK_VALUES THEN Num(BOOK_VALUES[bookType]) ELSE NaN

ZeroStatsV1 == [totalBooks |-> 0, totalPoints |-> Num(0)]

\* Object.keys(books).forEach(bookType => ...) over the keys not yet visited.
RECURSIVE ForEachKeyV1(_, _, _)
ForEachKeyV1(acc, books, keys) ==
  IF keys = {} THEN acc
  ELSE LET bookType == CHOOSE k \in keys : TRUE
           count == OrZero(books, bookType)
       IN  ForEachKeyV1(
             [totalBooks  |-> acc.totalBooks + count,
              totalPoints |-> NumAdd(acc.totalPoints,
                                     NumMul(Num(count), WeightOf(bookType)))],
             books, keys \ {bookType})

calculateStatsV1(books) == ForEachKeyV1(ZeroStatsV1, books, DOMAIN books)

\* ------------------------------------------------------------------- state

VARIABLES
  argBooksData,   \* calculateStats: the booksData argument
  argDate,        \* calculateStats: the specificDate argument
  called,         \* which calculateStats has run on the arguments
  retStats,       \* what calculateStats returned
  retStatsV1,     \* what the first version's calculateStats returned
  teams,          \* App state: the local cache of the team collection
  searchTerm,     \* App state: the text of the search box
  filterLeader,   \* App state: "all" or a leader name
  sortBy,         \* App state: "points" or "books"
  selectedDate,   \* App state: the date of the dashboard, '' when cleared
  leaders,        \* App state: the names of the leader roster
  isAdmin,        \* App state: a user is signed in
  showAddTeam,    \* App state: the team form is open
  editingTeam,    \* App state: the row being edited, or null
  formData,       \* TeamForm state, null while the form is not mounted
  showEditTeams,  \* App state: the Edit Teams modal is open
  teamEdits,      \* EditTeamsModal state: team id -> counts
  showAdminUpdateScore, \* App state: the Update Scores by Date modal is open
  scoreUpdates,   \* AdminUpdateScoreModal state: team id -> counts
  modalDate,      \* AdminUpdateScoreModal state: its selectedDate
  job,            \* the onUpdate call in progress: what is left of its loop
  store,          \* Document Store: the teams collection, id -> fields
  request,        \* the last request sent to the Document Store
  alert,          \* the text of the alert box that is open, '' when none is
  writes,         \* writing operations the admin has started so far
  leaderDocs,     \* Document Store: the leaders collection, id -> name
  leadersLoaded,  \* the loadLeaders effect has run
  newLeader,      \* App state: the text of the new-leader input
  otherTeams,     \* a second session: its local cache of the teams
  otherLeaders,   \* a second session: its leader roster
  otherLoaded,    \* a second session: its loadLeaders effect has run
  otherRequest,   \* a second session: the last request it sent
  otherWrites,    \* a second session: writing operations started so far
  showLogin,      \* App state: the login modal is open
  email,          \* App state: the text of the email input
  password,       \* App state: the text of the password input
  error,          \* App state: the message shown in the login modal
  loginResult     \* how the last loginUser call ended, "none" before any

statsVars == <<argBooksData, argDate, called, retStats, retStatsV1>>

viewVars == <<teams, searchTerm, filterLeader, sortBy, selectedDate>>

formVars == <<showAddTeam, editingTeam, formData>>

editTeamsVars == <<showEditTeams, teamEdits>>

scoreVars == <<showAdminUpdateScore, scoreUpdates, modalDate>>

leaderVars == <<leaderDocs, leadersLoaded, newLeader>>

otherVars == <<otherTeams, otherLeaders, otherLoaded, otherRequest,
               otherWrites>>

loginVars == <<showLogin, email, password, error, loginResult>>

appVars == <<leaders, isAdmin, formVars, editTeamsVars, scoreVars, job, store,
             request, alert, writes, leaderVars, otherVars, loginVars>>

vars == <<statsVars, viewVars, appVars>>

NoJob == [kind |-> "none", updates |-> <<>>, teamsAtClick |-> <<>>,
          aliased |-> FALSE]

\* A request: the handler that sent it and the arguments of that handler, the
\* function of firebase.js and its arguments, and whether the promise resolved.
Request(from, call, fn, args, ok) ==
  [from |-> from, call |-> call, fn |-> fn, args |-> args, ok |-> ok]

NoRequest == Request("none", EmptyObject, "none", EmptyObject, FALSE)

\* No alert box is open. While one is open nothing else runs: window.alert
\* returns when the user has closed the box.
NoAlert == ""

\* new Date().toISOString().split('T')[0] at the time the page is loaded.
Today == "2025-01-02"

\* The state of the App component that its useState calls give it.
InitView ==
  /\ teams = <<>>
  /\ searchTerm = <<>>
  /\ filterLeader = "all"
  /\ sortBy = "points"
  /\ selectedDate = Today

\* The leader roster the one-shot read returns at first.
Roster == <<"Gopal">>

\* The leaders collection as earlier sessions have left it.
SeedLeaders == [id \in 1..Len(Roster) |-> Roster[id]]

\* The rest of the state after construction: nobody signed in, no modal, no
\* request issued.
InitApp ==
  /\ leaders = <<>>
  /\ isAdmin = FALSE
  /\ showAddTeam = FALSE
  /\ editingTeam = Null
  /\ formData = Null
  /\ showEditTeams = FALSE
  /\ teamEdits = EmptyObject
  /\ showAdminUpdateScore = FALSE
  /\ scoreUpdates = EmptyObject
  /\ modalDate = Today
  /\ job = NoJob
  /\ request = NoRequest
  /\ alert = NoAlert
  /\ writes = 0
  /\ leaderDocs = SeedLeaders
  /\ leadersLoaded = FALSE
  /\ newLeader = ""
  /\ otherTeams = <<>>
  /\ otherLeaders = <<>>
  /\ otherLoaded = FALSE
  /\ otherRequest = NoRequest
  /\ otherWrites = 0
  /\ showLogin = FALSE
  /\ email = ""
  /\ password = ""
  /\ error = ""
  /\ loginResult = "none"

\* The arguments and results of the Stats Calculator before any call.
IdleStats ==
  /\ argBooksData = EmptyObject
  /\ argDate = NoDate
  /\ called = "none"
  /\ retStats = ZeroStats
  /\ retStatsV1 = ZeroStatsV1

\* ------------------------------------------- inputs of the Stats Calculator

Dates == {"2025-01-01", "2025-01-02"}

DateArgs == Dates \cup {NoDate}

\* A key that is none of the six categories.
ExtraKey == "Foo"

Categories == RangeOf(BOOK_TYPES)

\* Every mapping from a subset of keys to counts in 0..MaxCount.
CountMaps(keys) ==
  UNION {[ks -> 0..MaxCount] : ks \in SUBSET keys}

ScenarioA == [Bhagavatam |-> 1, MBB |-> 3]

FlatInputs == CountMaps(Categories \cup {ExtraKey}) \cup {ScenarioA}

\* Dated entries: a date and counts of two categories, each absent, 0 or
\* MaxCount.
EntryCounts ==
  UNION {[ks -> {0, MaxCount}] : ks \in SUBSET {"CC", "MB"}}

Entries == {WithDate(d, m) : d \in Dates, m \in EntryCounts}

SeqsUpTo(S, n) == UNION {[1..k -> S] : k \in 0..n}

HistoryInputs == {Arr(h) : h \in SeqsUpTo(Entries, MaxEntries)}

InitStats ==
  /\ argBooksData \in FlatInputs \cup HistoryInputs
  /\ argDate \in DateArgs
  /\ called = "none"
  /\ retStats = ZeroStats
  /\ retStatsV1 = ZeroStatsV1
  /\ InitView
  /\ InitApp
  /\ store = EmptyObject

\* calculateStats(booksData, specificDate) of the current dashboard.
CallCalculateStats ==
  /\ called = "none"
  /\ called' = "calculateStats"
  /\ retStats' = calculateStats(argBooksData, argDate)
  /\ UNCHANGED <<argBooksData, argDate, retStatsV1, viewVars, appVars>>

\* calculateStats(books) of the first dashboard, which knows flat counts only.
CallCalculateStatsV1 ==
  /\ called = "none"
  /\ ~IsArray(argBooksData)
  /\ called' = "calculateStatsV1"
  /\ retStatsV1' = calculateStatsV1(argBooksData)
  /\ UNCHANGED <<argBooksData, argDate, retStats, viewVars, appVars>>

NextStats == CallCalculateStats \/ CallCalculateStatsV1

SpecStats == InitStats /\ [][NextStats]_vars

\* ----------------------------------------------------------- Team Aggregator

\* team.booksHistory || team.books || {}
BooksDataOf(team) ==
  IF "booksHistory" \in DOMAIN team THEN team.booksHistory
  ELSE IF "books" \in DOMAIN team THEN team.books
  ELSE EmptyObject

\* One team of getTeamsWithStats(dateFilter). Both branches of the code are
\* here: flat counts without a date key, and everything else.
TeamWithStats(team, dateFilter) ==
  LET booksData == BooksDataOf(team)
      stats == calculateStats(booksData, dateFilter)
      asHistory == Arr(<<WithDate(selectedDate, booksData)>>)
  IN  IF ~IsArray(booksData) /\ "date" \notin DOMAIN booksData
      THEN Spread(Spread(team, [books |-> booksData, booksHistory |-> asHistory]),
                  stats)
      ELSE Spread(Spread(team,
                    [booksHistory |-> IF IsArray(booksData) THEN booksData
                                      ELSE asHistory,
                     books |-> IF IsArray(booksData) THEN EmptyObject
                               ELSE booksData]),
                  stats)

getTeamsWithStats(dateFilter) ==
  [i \in 1..Len(teams) |-> TeamWithStats(teams[i], dateFilter)]

\* Mutant: find in place of filter, only the first match is kept.
SearchFilterFirstOnly(list) ==
  LET hits == SelectSeq(list, LAMBDA team :
                includes(toLowerCase(team.name), toLowerCase(searchTerm)))
  IN  IF searchTerm # <<>> THEN SubSeq(hits, 1, IF Len(hits) > 0 THEN 1 ELSE 0)
      ELSE list

\* if (searchTerm) filtered = filtered.filter(name includes searchTerm)
SearchFilter(list) ==
  IF searchTerm # <<>>
  THEN SelectSeq(list, LAMBDA team :
         includes(toLowerCase(team.name), toLowerCase(searchTerm)))
  ELSE list

\* Mutant: the value 'all' is compared with the leader like any other value.
LeaderFilterAlways(list) ==
  SelectSeq(list, LAMBDA team : team.leader = filterLeader)

\* if (filterLeader !== 'all') filtered = filtered.filter(leader === filterLeader)
LeaderFilter(list) ==
  IF filterLeader # "all"
  THEN SelectSeq(list, LAMBDA team : team.leader = filterLeader)
  ELSE list

\* Mutant: ascending order.
CompareAscending(a, b) ==
  IF sortBy = "points" THEN a.totalPoints - b.totalPoints
  ELSE a.totalBooks - b.totalBooks

\* The comparator given to sort: positive when a goes after b.
Compare(a, b) ==
  IF sortBy = "points" THEN b.totalPoints - a.totalPoints
  ELSE b.totalBooks - a.totalBooks

\* Mutant: an element goes before the elements it is equal to.
RECURSIVE InsertBeforeEqual(_, _)
InsertBeforeEqual(sorted, x) ==
  IF sorted = <<>> THEN <<x>>
  ELSE IF Compare(Head(sorted), x) >= 0 THEN <<x>> \o sorted
  ELSE <<Head(sorted)>> \o InsertBeforeEqual(Tail(sorted), x)

\* Array.prototype.sort is a stable sort (ECMAScript 2019): an element goes
\* after every element that the comparator does not put after it.
RECURSIVE Insert(_, _)
Insert(sorted, x) ==
  IF sorted = <<>> THEN <<x>>
  ELSE IF Compare(Head(sorted), x) > 0 THEN <<x>> \o sorted
  ELSE <<Head(sorted)>> \o Insert(Tail(sorted), x)

RECURSIVE SortFrom(_, _, _)
SortFrom(sorted, list, i) ==
  IF i > Len(list) THEN sorted
  ELSE SortFrom(Insert(sorted, list[i]), list, i + 1)

\* filtered.sort((a, b) => ...)
Sort(list) == SortFrom(<<>>, list, 1)

getFilteredTeams ==
  Sort(LeaderFilter(SearchFilter(getTeamsWithStats(selectedDate))))

\* ---------------------------------------------------------------- CSV export

\* The header row of the export.
CsvHeaders ==
  <<"Rank", "Team Name", "BV Leader", "Bhagavatam", "CC", "MBB", "BB", "MB",
    "SB", "Total Books", "Total Points">>

\* Number.prototype.toFixed(2) of a number of quarter points: the digits
\* before the point and the two digits after it.
toFixed2(quarters) ==
  [whole |-> quarters \div 4, hundredths |-> (quarters % 4) * 25]

\* Mutant: the rank is the place of the team in the collection as retrieved.
CsvRowPlaceInCollection(team, idx) ==
  <<CHOOSE i \in 1..Len(teams) : teams[i].id = team.id,
    team.name, team.leader,
    OrZero(team.books, "Bhagavatam"), OrZero(team.books, "CC"),
    OrZero(team.books, "MBB"), OrZero(team.books, "BB"),
    OrZero(team.books, "MB"), OrZero(team.books, "SB"),
    team.totalBooks, toFixed2(team.totalPoints)>>

\* The fields of the data row of a team; idx counts from 0.
CsvRow(team, idx) ==
  <<idx + 1, team.name, team.leader,
    OrZero(team.books, "Bhagavatam"), OrZero(team.books, "CC"),
    OrZero(team.books, "MBB"), OrZero(team.books, "BB"),
    OrZero(team.books, "MB"), OrZero(team.books, "SB"),
    team.totalBooks, toFixed2(team.totalPoints)>>

\* exportToCSV: [headers, ...rows], the rows of the text that is downloaded.
\* The rows are joined with line breaks and the fields with commas; a field
\* holds no line break, the names come from single-line inputs.
exportToCSV ==
  LET teamsWithStats == getFilteredTeams
  IN  <<CsvHeaders>> \o
        [k \in 1..Len(teamsWithStats) |-> CsvRow(teamsWithStats[k], k - 1)]

\* --------------------------------------------------------------------- chart

\* slice(0, 10): the chart shows at most ten teams.
ChartTop == 10

\* Mutant: the chart is ordered by books, whatever the sort selector says.
ChartCompareByBooks(a, b) == b.totalBooks - a.totalBooks

\* The comparator of the chart, the one of the ranked view written out again.
ChartCompare(a, b) ==
  IF sortBy = "points" THEN b.totalPoints - a.totalPoints
  ELSE b.totalBooks - a.totalBooks

\* Array.prototype.sort with the comparator of the chart, a stable sort: an
\* element comes after those the comparator puts before it and after those
\* before it in the list that the comparator holds equal to it.
ChartSort(list) ==
  LET before(j, i) ==
        \/ ChartCompare(list[j], list[i]) < 0
        \/ ChartCompare(list[j], list[i]) = 0 /\ j < i
      place(i) == 1 + Cardinality({j \in 1..Len(list) : before(j, i)})
  IN  [p \in 1..Len(list) |-> list[CHOOSE i \in 1..Len(list) : place(i) = p]]

\* filteredTeams.slice(0, 10).sort(...): the teams of the chart.
chartTeams ==
  LET filteredTeams == getFilteredTeams
      top == IF Len(filteredTeams) < ChartTop THEN Len(filteredTeams)
             ELSE ChartTop
  IN  ChartSort(SubSeq(filteredTeams, 1, top))

\* chartData: name (cut to 15 characters and '...' when longer), points, books.
chartData ==
  LET short(name) == IF Len(name) > 15
                     THEN SubSeq(name, 1, 15) \o <<".", ".", ".">>
                     ELSE name
      sorted == chartTeams
  IN  [i \in 1..Len(sorted) |->
         [name |-> short(sorted[i].name),
          points |-> sorted[i].totalPoints,
          books |-> sorted[i].totalBooks]]

\* ---------------------------------------------------- claims: calculateStats

\* The sum over the six categories of count x weight (quarter points), with an
\* absent category counting 0 and every other key ignored.
WeightedSum(m) ==
    OrZero(m, "Bhagavatam") * 288 + OrZero(m, "CC") * 144 + OrZero(m, "MBB") * 8
  + OrZero(m, "BB") * 4 + OrZero(m, "MB") * 2 + OrZero(m, "SB") * 1

\* C1: for every flat book-count mapping, with any subset of the categories and
\* any extra keys, totalPoints is the weighted sum over the six categories; this
\* is stated of both calculateStats of the repository.
C1_TotalPointsIsWeightedSum ==
  /\ (called = "calculateStats" /\ ~IsArray(argBooksData))
        => retStats.totalPoints = WeightedSum(argBooksData)
  /\ called = "calculateStatsV1"
        => retStatsV1.totalPoints = Num(WeightedSum(argBooksData))

\* C1, for the calculateStats of the current dashboard alone.
C1_CurrentTotalPointsIsWeightedSum ==
  (called = "calculateStats" /\ ~IsArray(argBooksData))
    => retStats.totalPoints = WeightedSum(argBooksData)

\* C1 witness: scenario A, {Bhagavatam: 1, MBB: 3}, gives 78 points.
C1_Witness ==
  /\ called = "calculateStats"
  /\ argBooksData = ScenarioA
  /\ retStats.totalPoints = 78 * 4

NoEntryHasDate(items, d) == \A i \in 1..Len(items) : ~DateIs(items[i], d)

\* C2: history-shaped data and a date filter that is the date of no entry give
\* totalBooks = 0 and totalPoints = 0, as an ordinary return value.
C2_NoMatchingDateGivesZero ==
  (/\ called = "calculateStats"
   /\ IsArray(argBooksData)
   /\ Truthy(argDate)
   /\ NoEntryHasDate(argBooksData.items, argDate))
    => retStats = [totalBooks |-> 0, totalPoints |-> 0]

\* C2 witness: a history with books on another date only, asked for a date.
C2_Witness ==
  /\ called = "calculateStats"
  /\ IsArray(argBooksData)
  /\ Truthy(argDate)
  /\ Len(argBooksData.items) = 2
  /\ NoEntryHasDate(argBooksData.items, argDate)
  /\ \A i \in 1..2 : WeightedSum(argBooksData.items[i]) > 0
  /\ retStats = [totalBooks |-> 0, totalPoints |-> 0]

\* The totals of the entries of a history, each taken alone, added up.
RECURSIVE SumOfEntryStats(_, _)
SumOfEntryStats(items, specificDate) ==
  IF items = <<>> THEN [totalBooks |-> 0, totalPoints |-> 0]
  ELSE LET one == calculateStats(Arr(<<Head(items)>>), specificDate)
           rest == SumOfEntryStats(Tail(items), specificDate)
       IN  [totalBooks  |-> one.totalBooks + rest.totalBooks,
            totalPoints |-> one.totalPoints + rest.totalPoints]

\* C3: history-shaped data and no date filter give the sum, over all dated
\* entries, of the totals of each entry taken alone.
C3_NoDateGivesCumulativeTotals ==
  (called = "calculateStats" /\ IsArray(argBooksData) /\ argDate = NoDate)
    => retStats = SumOfEntryStats(argBooksData.items, NoDate)

\* C3 witness: two entries of different dates, both with books, summed.
C3_Witness ==
  /\ called = "calculateStats"
  /\ IsArray(argBooksData)
  /\ argDate = NoDate
  /\ Len(argBooksData.items) = 2
  /\ argBooksData.items[1].date # argBooksData.items[2].date
  /\ \A i \in 1..2 : WeightedSum(argBooksData.items[i]) > 0
  /\ retStats.totalPoints =
       WeightedSum(argBooksData.items[1]) + WeightedSum(argBooksData.items[2])

\* -------------------------------------------------- inputs of the ranked view

AlphaSquad == <<"A", "l", "p", "h", "a", " ", "S", "q", "u", "a", "d">>

BetaTeam == <<"B", "e", "t", "a", " ", "T", "e", "a", "m">>

ViewNames == {AlphaSquad, BetaTeam}

\* What is typed in the search box: nothing, "Alpha", "TEAM".
SearchTerms == {<<>>, <<"A", "l", "p", "h", "a">>, <<"T", "E", "A", "M">>}

LeaderNames == {"Gopal", "Madhava"}

\* The leaders offered by the leader selector of the ranked view.
LeaderChoices == {"Gopal"}

\* The order of the ids is the order in which the store returns the documents.
TeamIdSeq == <<"t1", "t2", "t3", "t4">>

\* Book data of a team: flat counts, or a history with one entry on each date.
\* {MB: 2} is 2 books and 1 point. The history is 1 book and 2 points on the
\* first date, so that points and books rank the teams differently, and on
\* the second date as many books as MaxCount.
ViewBookData ==
  { [books |-> [MB |-> 2]],
    [books |-> EmptyObject,
     booksHistory |-> Arr(<<WithDate("2025-01-01", [MBB |-> 1]),
                            WithDate("2025-01-02", [MB |-> MaxCount])>>)] }

ViewProfiles ==
  {Spread([name |-> n, leader |-> l], d) :
     n \in ViewNames, l \in LeaderNames, d \in ViewBookData}

\* Team collections as the subscription delivers them: the k-th document has
\* the k-th id.
ViewCollections ==
  UNION {{[i \in 1..k |-> Spread([id |-> TeamIdSeq[i]], f[i])] :
            f \in [1..k -> ViewProfiles]} : k \in 0..MaxViewTeams}

\* The documents behind a delivered collection: the fields without the id.
StoreOf(list) ==
  [id \in {list[i].id : i \in 1..Len(list)} |->
     LET team == CHOOSE t \in RangeOf(list) : t.id = id
     IN  [k \in DOMAIN team \ {"id"} |-> team[k]]]

InitViewSpec ==
  /\ IdleStats
  /\ InitApp
  /\ teams \in ViewCollections
  /\ store = StoreOf(teams)
  /\ searchTerm = <<>>
  /\ filterLeader = "all"
  /\ sortBy = "points"
  /\ selectedDate = Today

\* onChange of the search box.
SetSearchTerm ==
  /\ \E v \in SearchTerms : searchTerm' = v
  /\ UNCHANGED <<statsVars, appVars, teams, filterLeader, sortBy,
                 selectedDate>>

\* onChange of the leader selector.
SetFilterLeader ==
  /\ \E v \in {"all"} \cup LeaderChoices : filterLeader' = v
  /\ UNCHANGED <<statsVars, appVars, teams, searchTerm, sortBy, selectedDate>>

\* onChange of the sort selector.
SetSortBy ==
  /\ \E v \in {"points", "books"} : sortBy' = v
  /\ UNCHANGED <<statsVars, appVars, teams, searchTerm, filterLeader,
                 selectedDate>>

\* onChange of the date input; clearing the input gives ''.
SetSelectedDate ==
  /\ \E v \in DateArgs : selectedDate' = v
  /\ UNCHANGED <<statsVars, appVars, teams, searchTerm, filterLeader, sortBy>>

NextView == SetSearchTerm \/ SetFilterLeader \/ SetSortBy \/ SetSelectedDate

SpecView == InitViewSpec /\ [][NextView]_vars

\* ------------------------------------------------------ claims: ranked view

\* The value the ranked view is ordered by.
ActiveKey(team) ==
  IF sortBy = "points" THEN team.totalPoints ELSE team.totalBooks

\* The place of a team in the collection as retrieved.
PlaceInCollection(id) == CHOOSE i \in 1..Len(teams) : teams[i].id = id

\* The ranked view holds two teams with the same value of the active key, and
\* its first team is not the first of the collection: the sort moved a team.
SortMovedATeamPastATie ==
  LET ranked == getFilteredTeams
  IN  /\ Len(ranked) >= 3
      /\ ranked[1].id # teams[1].id
      /\ \E i, j \in 1..Len(ranked) :
            i < j /\ ActiveKey(ranked[i]) = ActiveKey(ranked[j])

\* C6: the ranked view is in descending order of the active key (totalPoints
\* for 'points', totalBooks for 'books'): each element's key is at least the
\* key of the next.
C6_RankedViewIsDescending ==
  LET ranked == getFilteredTeams
  IN  \A i \in 1..(Len(ranked) - 1) :
        ActiveKey(ranked[i]) >= ActiveKey(ranked[i + 1])

\* C6 witness: sorted by books, and the team that leads has fewer points than
\* the next one and was not first in the collection.
C6_Witness ==
  LET ranked == getFilteredTeams
  IN  /\ sortBy = "books"
      /\ Len(ranked) >= 2
      /\ ranked[1].totalBooks > ranked[2].totalBooks
      /\ ranked[1].totalPoints < ranked[2].totalPoints
      /\ ranked[1].id # teams[1].id

\* C7: two teams with equal value of the active key are ranked in the order
\* they have in the collection as retrieved.
C7_TiesKeepCollectionOrder ==
  LET ranked == getFilteredTeams
  IN  \A i, j \in 1..Len(ranked) :
        (i < j /\ ActiveKey(ranked[i]) = ActiveKey(ranked[j]))
          => PlaceInCollection(ranked[i].id) < PlaceInCollection(ranked[j].id)

\* C7 witness: a tie under 'points' in a view that the sort reordered.
C7_Witness == sortBy = "points" /\ SortMovedATeamPastATie

\* C8: sorting the ranked view again by the same key gives the same sequence,
\* element for element.
C8_SortIsIdempotent == Sort(getFilteredTeams) = getFilteredTeams

\* C8 witness: a reordered view with a tie, sorted by books.
C8_Witness == sortBy = "books" /\ SortMovedATeamPastATie

\* C9: the name filter followed by the leader filter keeps the same set of
\* teams as the leader filter followed by the name filter.
C9_FiltersCommute ==
  LET all == getTeamsWithStats(selectedDate)
  IN  RangeOf(LeaderFilter(SearchFilter(all))) =
        RangeOf(SearchFilter(LeaderFilter(all)))

\* C9 witness: both filters are set, a team passes both, a team fails only
\* the name filter and a team fails only the leader filter.
C9_Witness ==
  LET all == getTeamsWithStats(selectedDate)
      byName == RangeOf(SearchFilter(all))
      byLeader == RangeOf(LeaderFilter(all))
  IN  /\ searchTerm # <<>>
      /\ filterLeader # "all"
      /\ byName \cap byLeader # {}
      /\ byName \ byLeader # {}
      /\ byLeader \ byName # {}

\* Two characters that are the same letter, in either case.
SameLetter(a, b) ==
  \/ a = b
  \/ \E i \in 1..Len(UpperLetters) :
       {a, b} = {UpperLetters[i], LowerLetters[i]}

\* part occurs in text at some offset, letter case not counting.
ContainsIgnoringCase(text, part) ==
  \E off \in 0..(Len(text) - Len(part)) :
    \A k \in 1..Len(part) : SameLetter(text[off + k], part[k])

PassesLeaderFilter(team) == filterLeader = "all" \/ team.leader = filterLeader

\* C10: with a search term, the ranked view holds exactly the teams passing
\* the leader filter whose name contains the term, letter case not counting;
\* with no search term, it holds every team passing the leader filter.
C10_SearchIsCaseInsensitiveSubstring ==
  {team.id : team \in RangeOf(getFilteredTeams)} =
    {team.id : team \in
       {t \in RangeOf(teams) :
          /\ PassesLeaderFilter(t)
          /\ searchTerm = <<>> \/ ContainsIgnoringCase(t.name, searchTerm)}}

\* C10 witness: "TEAM" is searched, "Beta Team" is ranked and "Alpha Squad",
\* which is in the collection, is not.
C10_Witness ==
  LET names == {team.name : team \in RangeOf(getFilteredTeams)}
  IN  /\ searchTerm = <<"T", "E", "A", "M">>
      /\ names = {BetaTeam}
      /\ \E i \in 1..Len(teams) : teams[i].name = AlphaSquad

\* C11: with the leader filter "all" the leader filter excludes no team,
\* whatever its leader; with any other value L exactly the teams whose leader
\* is L pass.
C11_LeaderFilterAllOrEqual ==
  LET passed == LeaderFilter(getTeamsWithStats(selectedDate))
      idsPassed == {passed[i].id : i \in 1..Len(passed)}
  IN  /\ Len(passed) = Cardinality(idsPassed)
      /\ filterLeader = "all" => idsPassed = {t.id : t \in RangeOf(teams)}
      /\ filterLeader # "all" =>
           idsPassed = {t.id : t \in {u \in RangeOf(teams) :
                                       u.leader = filterLeader}}

\* C11 witness: the filter is a leader, a team of that leader passes and a
\* team of another leader does not.
C11_Witness ==
  LET passed == LeaderFilter(getTeamsWithStats(selectedDate))
  IN  /\ filterLeader = "Gopal"
      /\ Len(passed) >= 1
      /\ \A i \in 1..Len(passed) : passed[i].leader = "Gopal"
      /\ \E i \in 1..Len(teams) : teams[i].leader = "Madhava"

GauraNitaiSankirtan ==
  <<"G", "a", "u", "r", "a", " ", "N", "i", "t", "a", "i", " ",
    "S", "a", "n", "k", "i", "r", "t", "a", "n">>

ChartIdSeq ==
  <<"t01", "t02", "t03", "t04", "t05", "t06", "t07", "t08", "t09", "t10",
    "t11", "t12", "t13">>

\* Two kinds of team: flat counts under a short name, and a history under a
\* name of more than 15 characters. On the first date the history has fewer
\* books and more points than the flat counts.
ChartProfiles ==
  [flat |-> [name |-> AlphaSquad, leader |-> "Gopal", books |-> [MB |-> 2]],
   dated |-> [name |-> GauraNitaiSankirtan, leader |-> "Madhava",
              books |-> EmptyObject,
              booksHistory |->
                Arr(<<WithDate("2025-01-01", [MBB |-> 1]),
                      WithDate("2025-01-02", [MB |-> 2])>>)]]

\* Team collections of up to MaxChartTeams teams; the kinds of the first
\* three teams are free and repeat down the collection.
ChartCollections ==
  {[i \in 1..k |->
      Spread([id |-> ChartIdSeq[i]], ChartProfiles[f[((i - 1) % 3) + 1]])] :
     f \in [1..3 -> {"flat", "dated"}], k \in 0..MaxChartTeams}

InitChart ==
  /\ IdleStats
  /\ InitApp
  /\ teams \in ChartCollections
  /\ store = StoreOf(teams)
  /\ searchTerm = <<>>
  /\ filterLeader = "all"
  /\ sortBy = "points"
  /\ selectedDate = Today

SpecChart == InitChart /\ [][NextView]_vars

\* ------------------------------------------------------------ claims: chart

\* C13: the chart shows the first min(10, n) teams of the ranked view of n
\* teams, in the order of the ranked view, which is the order of the active
\* sort key.
C13_ChartIsTopOfRankedView ==
  LET ranked == getFilteredTeams
      top == IF Len(ranked) < 10 THEN Len(ranked) ELSE 10
      shown == chartTeams
      data == chartData
  IN  /\ shown = SubSeq(ranked, 1, top)
      /\ Len(data) = top
      /\ \A i \in 1..top :
           /\ data[i].points = ranked[i].totalPoints
           /\ data[i].books = ranked[i].totalBooks
           /\ data[i].name[1] = ranked[i].name[1]
      /\ \A i \in 1..(top - 1) :
           ActiveKey(shown[i]) >= ActiveKey(shown[i + 1])

\* C13 witness: more than ten teams are ranked, by points, the sort has moved
\* a team with fewer books to the top, and the chart stops at ten.
C13_Witness ==
  LET ranked == getFilteredTeams
  IN  /\ Len(ranked) > 10
      /\ sortBy = "points"
      /\ Len(chartData) = 10
      /\ ranked[1].id # teams[1].id
      /\ ranked[1].totalBooks < ranked[Len(ranked)].totalBooks
      /\ ranked[1].totalPoints > ranked[Len(ranked)].totalPoints

\* ------------------------------------------------------------ Document Store

\* onSnapshot: the documents in the order of their ids, each with its id.
Snapshot ==
  LET ids == SelectSeq(TeamIdSeq, LAMBDA id : id \in DOMAIN store)
  IN  [i \in 1..Len(ids) |-> Spread([id |-> ids[i]], store[ids[i]])]

\* Mutant: the counts of a written books field are merged with the stored
\* ones, the larger count of a category staying.
UpdateDocMerging(docs, teamId, teamData) ==
  [docs EXCEPT ![teamId] =
     Spread(@, IF "books" \in DOMAIN teamData /\ "books" \in DOMAIN @
               THEN Spread(teamData,
                           [books |-> [c \in DOMAIN teamData.books |->
                                         Max(OrZero(@.books, c),
                                             teamData.books[c])]])
               ELSE teamData)]

\* updateDoc: the given fields replace the fields of the same name. The
\* lastUpdated stamp is left out: nothing reads it.
UpdateDoc(docs, teamId, teamData) ==
  [docs EXCEPT ![teamId] = Spread(@, teamData)]

\* addDoc under a fresh id.
AddDoc(docs, teamId, teamData) ==
  [id \in DOMAIN docs \cup {teamId} |->
     IF id = teamId THEN teamData ELSE docs[id]]

\* deleteDoc.
DeleteDoc(docs, teamId) == [id \in DOMAIN docs \ {teamId} |-> docs[id]]

\* The ids left for a new document of the leaders collection: the next one,
\* none when the collection is full.
FreshLeaderIds(docs) ==
  {id \in (1..MaxLeaders) \ DOMAIN docs :
     \A other \in (1..MaxLeaders) \ DOMAIN docs : id <= other}

\* ------------------------------------------------------- inputs of the admin

\* The ids the store gives to documents; at most that many teams exist.
TeamIds == {"t1", "t2"}

\* The category whose inputs and buttons the admin uses; the seeded teams
\* have counts in another one as well.
InputCategories == {"MB"}

\* What the admin types in a number input: nothing, "2", "-1".
InputTexts == {<<>>, <<"2">>, <<"-", "1">>}

\* What the admin types as the team name: a blank, a name. The name of a new
\* form is empty.
InputNames == {<<" ">>, AlphaSquad}

ZeroBooks == [c \in Categories |-> 0]

\* A team as the team form creates it, and a team after a by-date update of
\* its scores on the first date.
SeedLegacyTeam ==
  [name |-> AlphaSquad, leader |-> "Gopal",
   books |-> [ZeroBooks EXCEPT !["BB"] = 1]]

SeedHistoryTeam ==
  [name |-> AlphaSquad, leader |-> "Gopal",
   books |-> [ZeroBooks EXCEPT !["BB"] = 2, !["MB"] = 2],
   booksHistory |->
     Arr(<<WithDate("2025-01-01",
                    [ZeroBooks EXCEPT !["BB"] = 2, !["MB"] = 2])>>)]

\* The store as earlier sessions of the program can have left it.
SeedStores ==
  { EmptyObject,
    [id \in {"t1"} |-> SeedLegacyTeam],
    [id \in {"t1", "t2"} |->
       IF id = "t1" THEN SeedLegacyTeam ELSE SeedHistoryTeam] }

\* ------------------------------------------------------------- the App: state

NoModalOpen == ~showAddTeam /\ ~showEditTeams /\ ~showAdminUpdateScore

\* The admin goes on only while the session may still issue a request.
CanWrite == writes < MaxWrites

IdsOf(list) == {list[i].id : i \in 1..Len(list)}

TeamById(list, id) == list[CHOOSE i \in 1..Len(list) : list[i].id = id]

\* EditTeamsModal effect on [teams]: the edits start from the current counts.
InitialEdits(list) ==
  [id \in IdsOf(list) |->
     IF "books" \in DOMAIN TeamById(list, id) THEN TeamById(list, id).books
     ELSE ZeroBooks]

\* AdminUpdateScoreModal effect on [teams]: the scores start from zero.
InitialUpdates(list) == [id \in IdsOf(list) |-> ZeroBooks]

\* What a change of the teams state does to the mounted modals.
ModalsSee(list) ==
  /\ teamEdits' = IF showEditTeams THEN InitialEdits(list) ELSE teamEdits
  /\ scoreUpdates' =
       IF showAdminUpdateScore THEN InitialUpdates(list) ELSE scoreUpdates

InitSpec ==
  /\ IdleStats
  /\ InitView
  /\ InitApp
  /\ store \in SeedStores

\* onAuthChange callback: setIsAdmin(!!user).
OnAuthChange ==
  /\ alert = NoAlert
  /\ \E user \in BOOLEAN : isAdmin' = user
  /\ UNCHANGED <<statsVars, loginVars, leaderVars, otherVars, alert, viewVars,
                 leaders, formVars, editTeamsVars, scoreVars, job, store,
                 request, writes>>

\* getTeams callback: setTeams(teamsData). The arrays of the old state are no
\* longer those of the new state.
OnTeamsSnapshot ==
  /\ alert = NoAlert
  /\ teams # Snapshot
  /\ teams' = Snapshot
  /\ ModalsSee(Snapshot)
  /\ job' = IF job.kind = "none" THEN job ELSE [job EXCEPT !.aliased = FALSE]
  /\ UNCHANGED <<statsVars, loginVars, leaderVars, otherVars, alert,
                 searchTerm, filterLeader, sortBy, selectedDate, leaders,
                 isAdmin, formVars, showEditTeams, showAdminUpdateScore,
                 modalDate, store, request, writes>>

\* getLeaders, then leadersData.map(l => l.name): the documents in the order
\* of their ids.
RosterOf(docs) ==
  LET ids == SelectSeq([i \in 1..MaxLeaders |-> i], LAMBDA id : id \in DOMAIN docs)
  IN  [i \in 1..Len(ids) |-> docs[ids[i]]]

\* loadLeaders resolves: setLeaders(names). A mounted team form without a
\* team starts over, its effect depends on [team, leaders]. A rejected
\* getLeaders leaves the roster as it is while the read is pending.
BlankForm(roster) ==
  [name |-> <<>>,
   leader |-> IF Len(roster) > 0 THEN roster[1] ELSE "",
   books |-> ZeroBooks]

OnLeadersLoaded ==
  /\ alert = NoAlert
  /\ ~leadersLoaded
  /\ leadersLoaded' = TRUE
  /\ leaders' = RosterOf(leaderDocs)
  /\ formData' = IF ~showAddTeam THEN formData
                 ELSE IF editingTeam # Null THEN editingTeam
                 ELSE BlankForm(RosterOf(leaderDocs))
  /\ UNCHANGED <<statsVars, loginVars, otherVars, alert, viewVars, isAdmin,
                 showAddTeam, editingTeam, editTeamsVars, scoreVars, job,
                 store, request, writes, leaderDocs, newLeader>>

\* The user closes the alert box.
DismissAlert ==
  /\ alert # NoAlert
  /\ alert' = NoAlert
  /\ UNCHANGED <<statsVars, loginVars, leaderVars, otherVars, viewVars,
                 leaders, isAdmin, formVars, editTeamsVars, scoreVars, job,
                 store, request, writes>>

\* --------------------------------------------- per-category increment/decrement

\* Mutant: the new count is not clamped.
NewCountUnclamped(currentBooks, bookType, delta) ==
  OrZero(currentBooks, bookType) + delta

\* Math.max(0, (currentBooks[bookType] || 0) + delta)
NewCount(currentBooks, bookType, delta) ==
  Max(0, OrZero(currentBooks, bookType) + delta)

\* team.books || {}
BooksOrEmpty(team) == IF "books" \in DOMAIN team THEN team.books ELSE EmptyObject

\* Mutant: a failed request puts the old count back.
handleUpdateBookCountRollsBack(teamId, bookType, delta, ok) ==
  LET team == TeamById(teams, teamId)
      currentBooks == BooksOrEmpty(team)
      newCount == NewCount(currentBooks, bookType, delta)
      newBooks == Spread(currentBooks, (bookType :> newCount))
      newTeams == [i \in 1..Len(teams) |->
                     IF teams[i].id = teamId
                     THEN Spread(teams[i], [books |-> newBooks])
                     ELSE teams[i]]
  IN  /\ alert = NoAlert
      /\ isAdmin /\ NoModalOpen /\ CanWrite
      /\ teamId \in IdsOf(teams)
      /\ newCount <= MaxCount
      /\ teams' = IF ok /\ teamId \in DOMAIN store THEN newTeams ELSE teams
      /\ ModalsSee(teams')
      /\ writes' = writes + 1
      /\ request' = Request("handleUpdateBookCount",
                            [teamId |-> teamId, bookType |-> bookType,
                             delta |-> delta],
                            "updateTeam",
                            [teamId |-> teamId,
                             teamData |-> [books |-> newBooks]],
                            ok /\ teamId \in DOMAIN store)
      /\ store' = IF ok /\ teamId \in DOMAIN store
                  THEN UpdateDoc(store, teamId, [books |-> newBooks])
                  ELSE store
      /\ alert' = IF ok /\ teamId \in DOMAIN store THEN NoAlert
                  ELSE "Failed to update book count. Please try again."
      /\ UNCHANGED <<statsVars, loginVars, leaderVars, otherVars, searchTerm,
                     filterLeader, sortBy, selectedDate, leaders, isAdmin,
                     formVars, showEditTeams, showAdminUpdateScore, modalDate,
                     job>>

\* handleUpdateBookCount(teamId, bookType, delta), from the + and - buttons of
\* a row. The local update comes first; the request succeeds or fails.
handleUpdateBookCount(teamId, bookType, delta, ok) ==
  LET team == TeamById(teams, teamId)
      currentBooks == BooksOrEmpty(team)
      newCount == NewCount(currentBooks, bookType, delta)
      newBooks == Spread(currentBooks, (bookType :> newCount))
      newTeams == [i \in 1..Len(teams) |->
                     IF teams[i].id = teamId
                     THEN Spread(teams[i], [books |-> newBooks])
                     ELSE teams[i]]
  IN  /\ alert = NoAlert
      /\ isAdmin /\ NoModalOpen /\ CanWrite
      /\ teamId \in IdsOf(teams)
      /\ newCount <= MaxCount
      /\ teams' = newTeams
      /\ ModalsSee(newTeams)
      /\ writes' = writes + 1
      /\ request' = Request("handleUpdateBookCount",
                            [teamId |-> teamId, bookType |-> bookType,
                             delta |-> delta],
                            "updateTeam",
                            [teamId |-> teamId,
                             teamData |-> [books |-> newBooks]],
                            ok /\ teamId \in DOMAIN store)
      /\ store' = IF ok /\ teamId \in DOMAIN store
                  THEN UpdateDoc(store, teamId, [books |-> newBooks])
                  ELSE store
      /\ alert' = IF ok /\ teamId \in DOMAIN store THEN NoAlert
                  ELSE "Failed to update book count. Please try again."
      /\ UNCHANGED <<statsVars, loginVars, leaderVars, otherVars, searchTerm,
                     filterLeader, sortBy, selectedDate, leaders, isAdmin,
                     formVars, showEditTeams, showAdminUpdateScore, modalDate,
                     job>>

UpdateBookCount ==
  \E teamId \in TeamIds, bookType \in InputCategories, delta \in {1, -1},
     ok \in BOOLEAN :
    handleUpdateBookCount(teamId, bookType, delta, ok)

\* handleDeleteTeam(id), confirmed.
handleDeleteTeam(teamId, ok) ==
  /\ alert = NoAlert
  /\ isAdmin /\ NoModalOpen /\ CanWrite
  /\ teamId \in IdsOf(teams)
  /\ writes' = writes + 1
  /\ request' = Request("handleDeleteTeam", [id |-> teamId], "deleteTeam",
                        [teamId |-> teamId], ok /\ teamId \in DOMAIN store)
  /\ store' = IF ok /\ teamId \in DOMAIN store THEN DeleteDoc(store, teamId)
              ELSE store
  /\ alert' = IF ok /\ teamId \in DOMAIN store THEN NoAlert
              ELSE "Error deleting team. Please try again."
  /\ UNCHANGED <<statsVars, loginVars, leaderVars, otherVars, viewVars,
                 leaders, isAdmin, formVars, editTeamsVars, scoreVars, job>>

DeleteTeam ==
  \E teamId \in TeamIds, ok \in BOOLEAN : handleDeleteTeam(teamId, ok)

\* ------------------------------------------------------------ leader manager

\* What the admin types as the name of a new leader.
InputLeaders == {"Gopal", "Nitai"}

\* handleAddLeader() with the name typed into the input: a name the local
\* roster does not hold is sent to addLeader, which adds a document under a
\* fresh id; then the roster of the render that made the callback gets the
\* name and the input is cleared.
handleAddLeader(name, ok) ==
  /\ alert = NoAlert
  /\ isAdmin /\ NoModalOpen /\ CanWrite
  /\ name \notin RangeOf(leaders)
  /\ writes' = writes + 1
  /\ \/ /\ ok
        /\ \E id \in FreshLeaderIds(leaderDocs) :
             /\ leaderDocs' = AddDoc(leaderDocs, id, name)
             /\ request' = Request("handleAddLeader", [newLeader |-> name],
                                   "addLeader", [leaderName |-> name], TRUE)
        /\ leaders' = Append(leaders, name)
        /\ newLeader' = ""
        /\ alert' = NoAlert
     \/ /\ ~ok
        /\ request' = Request("handleAddLeader", [newLeader |-> name],
                              "addLeader", [leaderName |-> name], FALSE)
        /\ newLeader' = name
        /\ alert' = "Error adding leader. Please try again."
        /\ UNCHANGED <<leaderDocs, leaders>>
  /\ UNCHANGED <<statsVars, loginVars, otherVars, viewVars, isAdmin, formVars,
                 editTeamsVars, scoreVars, job, store, leadersLoaded>>

AddLeader ==
  \E name \in InputLeaders, ok \in BOOLEAN : handleAddLeader(name, ok)

\* Mutant: the name leaves the roster although the store has no document
\* of it.
handleDeleteLeaderFromCache(leader, ok) ==
  LET found == {id \in DOMAIN leaderDocs : leaderDocs[id] = leader}
      sent(id) == Request("handleDeleteLeader", [leader |-> leader],
                          "deleteLeader", [leaderId |-> id], ok)
  IN  /\ alert = NoAlert
      /\ isAdmin /\ NoModalOpen /\ CanWrite
      /\ writes' = writes + 1
      /\ IF ok /\ found = {}
         THEN /\ leaders' = SelectSeq(leaders, LAMBDA l : l # leader)
              /\ UNCHANGED <<leaderDocs, request, alert>>
         ELSE IF ok
         THEN \E id \in found :
                /\ \A other \in found : id <= other
                /\ leaderDocs' = DeleteDoc(leaderDocs, id)
                /\ request' = sent(id)
                /\ leaders' = SelectSeq(leaders, LAMBDA l : l # leader)
                /\ alert' = NoAlert
         ELSE /\ \/ request' = Request("handleDeleteLeader",
                                       [leader |-> leader],
                                       "getLeaders", EmptyObject, FALSE)
                 \/ \E id \in found : /\ \A other \in found : id <= other
                                      /\ request' = sent(id)
              /\ alert' = "Error deleting leader. Please try again."
              /\ UNCHANGED <<leaderDocs, leaders>>
      /\ UNCHANGED <<statsVars, loginVars, otherVars, viewVars, isAdmin,
                     formVars, editTeamsVars, scoreVars, job, store,
                     leadersLoaded, newLeader>>

\* handleDeleteLeader(leader), confirmed: getLeaders, the first document of
\* that name, deleteLeader(its id), then the roster without the name. With no
\* such document nothing is sent.
handleDeleteLeader(leader, ok) ==
  LET found == {id \in DOMAIN leaderDocs : leaderDocs[id] = leader}
      sent(id) == Request("handleDeleteLeader", [leader |-> leader],
                          "deleteLeader", [leaderId |-> id], ok)
  IN  /\ alert = NoAlert
      /\ isAdmin /\ NoModalOpen /\ CanWrite
      /\ writes' = writes + 1
      /\ IF ok /\ found = {}
         THEN UNCHANGED <<leaderDocs, leaders, request, alert>>
         ELSE IF ok
         THEN \E id \in found :
                /\ \A other \in found : id <= other
                /\ leaderDocs' = DeleteDoc(leaderDocs, id)
                /\ request' = sent(id)
                /\ leaders' = SelectSeq(leaders, LAMBDA l : l # leader)
                /\ alert' = NoAlert
         ELSE /\ \/ request' = Request("handleDeleteLeader",
                                       [leader |-> leader],
                                       "getLeaders", EmptyObject, FALSE)
                 \/ \E id \in found : /\ \A other \in found : id <= other
                                      /\ request' = sent(id)
              /\ alert' = "Error deleting leader. Please try again."
              /\ UNCHANGED <<leaderDocs, leaders>>
      /\ UNCHANGED <<statsVars, loginVars, otherVars, viewVars, isAdmin,
                     formVars, editTeamsVars, scoreVars, job, store,
                     leadersLoaded, newLeader>>

DeleteLeader ==
  \E leader \in RangeOf(leaders), ok \in BOOLEAN :
    handleDeleteLeader(leader, ok)

\* ------------------------------------------------------------------ TeamForm

\* The Add Team button: the form opens without a team.
OpenAddTeam ==
  /\ alert = NoAlert
  /\ isAdmin /\ NoModalOpen /\ CanWrite
  /\ showAddTeam' = TRUE
  /\ editingTeam' = editingTeam
  /\ formData' = IF editingTeam # Null THEN editingTeam ELSE BlankForm(leaders)
  /\ UNCHANGED <<statsVars, loginVars, leaderVars, otherVars, alert, viewVars,
                 leaders, isAdmin, editTeamsVars, scoreVars, job, store,
                 request, writes>>

\* The Edit button of a row: setEditingTeam(team); setShowAddTeam(true). The
\* team is the row of the ranked view, with its derived fields.
OpenEditTeam ==
  /\ alert = NoAlert
  /\ isAdmin /\ NoModalOpen /\ CanWrite
  /\ \E i \in 1..Len(getFilteredTeams) :
       /\ editingTeam' = getFilteredTeams[i]
       /\ formData' = getFilteredTeams[i]
  /\ showAddTeam' = TRUE
  /\ UNCHANGED <<statsVars, loginVars, leaderVars, otherVars, alert, viewVars,
                 leaders, isAdmin, editTeamsVars, scoreVars, job, store,
                 request, writes>>

\* onCancel of the team form.
CancelTeamForm ==
  /\ alert = NoAlert
  /\ showAddTeam
  /\ showAddTeam' = FALSE
  /\ editingTeam' = Null
  /\ formData' = Null
  /\ UNCHANGED <<statsVars, loginVars, leaderVars, otherVars, alert, viewVars,
                 leaders, isAdmin, editTeamsVars, scoreVars, job, store,
                 request, writes>>

\* onChange of the team name input.
FormSetName ==
  /\ alert = NoAlert
  /\ showAddTeam /\ CanWrite
  /\ \E text \in InputNames : formData' = Spread(formData, [name |-> text])
  /\ UNCHANGED <<statsVars, loginVars, leaderVars, otherVars, alert, viewVars,
                 leaders, isAdmin, showAddTeam, editingTeam, editTeamsVars,
                 scoreVars, job, store, request, writes>>

\* handleLeaderSelect(leader), from the dropdown of the roster.
FormSelectLeader ==
  /\ alert = NoAlert
  /\ showAddTeam /\ CanWrite
  /\ \E leader \in RangeOf(leaders) :
       formData' = Spread(formData, [leader |-> leader])
  /\ UNCHANGED <<statsVars, loginVars, leaderVars, otherVars, alert, viewVars,
                 leaders, isAdmin, showAddTeam, editingTeam, editTeamsVars,
                 scoreVars, job, store, request, writes>>

\* TeamForm.handleBookChange(bookType, value): parseInt(value) || 0.
FormBookChange(bookType, value) ==
  /\ alert = NoAlert
  /\ showAddTeam /\ CanWrite
  /\ formData' =
       Spread(formData,
              [books |-> Spread(formData.books,
                                (bookType :> ParsedOrZero(value)))])
  /\ UNCHANGED <<statsVars, loginVars, leaderVars, otherVars, alert, viewVars,
                 leaders, isAdmin, showAddTeam, editingTeam, editTeamsVars,
                 scoreVars, job, store, request, writes>>

TeamFormBookChange ==
  \E bookType \in InputCategories, value \in InputTexts :
    FormBookChange(bookType, value)

\* handleSubmit without a name, or without a leader: an alert, and nothing is
\* handed to onSave.
SubmitRejected ==
  /\ alert = NoAlert
  /\ showAddTeam
  /\ TrimIsEmpty(formData.name) \/ formData.leader = ""
  /\ alert' = IF TrimIsEmpty(formData.name) THEN "Please enter a team name"
              ELSE "Please select a BV Leader"
  /\ UNCHANGED <<statsVars, loginVars, leaderVars, otherVars, viewVars,
                 leaders, isAdmin, formVars, editTeamsVars, scoreVars, job,
                 store, request, writes>>

\* handleSubmit with a name and a leader, then handleSaveTeam(formData) for a
\* new team: addTeam, and on success the form closes.
SubmitNewTeam ==
  /\ alert = NoAlert
  /\ showAddTeam /\ editingTeam = Null /\ CanWrite
  /\ ~TrimIsEmpty(formData.name)
  /\ formData.leader # ""
  /\ writes' = writes + 1
  /\ \/ /\ \E teamId \in TeamIds \ DOMAIN store :
              store' = AddDoc(store, teamId, formData)
        /\ request' = Request("handleSaveTeam", [teamData |-> formData],
                              "addTeam", [teamData |-> formData], TRUE)
        /\ showAddTeam' = FALSE
        /\ formData' = Null
        /\ alert' = NoAlert
     \/ /\ request' = Request("handleSaveTeam", [teamData |-> formData],
                              "addTeam", [teamData |-> formData], FALSE)
        /\ alert' = "Error saving team. Please try again."
        /\ UNCHANGED <<store, showAddTeam, formData>>
  /\ UNCHANGED <<statsVars, loginVars, leaderVars, otherVars, viewVars,
                 leaders, isAdmin, editingTeam, editTeamsVars, scoreVars, job>>

\* handleSubmit, then handleSaveTeam(formData) for the team being edited:
\* updateTeam(editingTeam.id, formData), and on success the form closes.
SubmitEditedTeam ==
  /\ alert = NoAlert
  /\ showAddTeam /\ editingTeam # Null /\ CanWrite
  /\ ~TrimIsEmpty(formData.name)
  /\ formData.leader # ""
  /\ writes' = writes + 1
  /\ \/ /\ editingTeam.id \in DOMAIN store
        /\ store' = UpdateDoc(store, editingTeam.id, formData)
        /\ request' = Request("handleSaveTeam", [teamData |-> formData],
                              "updateTeam",
                              [teamId |-> editingTeam.id,
                               teamData |-> formData], TRUE)
        /\ showAddTeam' = FALSE
        /\ editingTeam' = Null
        /\ formData' = Null
        /\ alert' = NoAlert
     \/ /\ request' = Request("handleSaveTeam", [teamData |-> formData],
                              "updateTeam",
                              [teamId |-> editingTeam.id,
                               teamData |-> formData], FALSE)
        /\ alert' = "Error saving team. Please try again."
        /\ UNCHANGED <<store, showAddTeam, editingTeam, formData>>
  /\ UNCHANGED <<statsVars, loginVars, leaderVars, otherVars, viewVars,
                 leaders, isAdmin, editTeamsVars, scoreVars, job>>

\* ------------------------------------------------------------ EditTeamsModal

\* The Edit Teams button; the modal's effect initialises the edits.
OpenEditTeams ==
  /\ alert = NoAlert
  /\ isAdmin /\ NoModalOpen /\ CanWrite
  /\ showEditTeams' = TRUE
  /\ teamEdits' = InitialEdits(teams)
  /\ UNCHANGED <<statsVars, loginVars, leaderVars, otherVars, alert, viewVars,
                 leaders, isAdmin, formVars, scoreVars, job, store, request,
                 writes>>

\* onCancel of the Edit Teams modal.
CancelEditTeams ==
  /\ alert = NoAlert
  /\ showEditTeams
  /\ showEditTeams' = FALSE
  /\ teamEdits' = EmptyObject
  /\ UNCHANGED <<statsVars, loginVars, leaderVars, otherVars, alert, viewVars,
                 leaders, isAdmin, formVars, scoreVars, job, store, request,
                 writes>>

\* EditTeamsModal.handleBookChange: Math.max(0, parseInt(value) || 0).
EditTeamsBookChange ==
  /\ alert = NoAlert
  /\ showEditTeams /\ CanWrite
  /\ \E teamId \in DOMAIN teamEdits, bookType \in InputCategories,
        value \in InputTexts :
       teamEdits' =
         [teamEdits EXCEPT ![teamId] =
            Spread(@, (bookType :> Max(0, ParsedOrZero(value))))]
  /\ UNCHANGED <<statsVars, loginVars, leaderVars, otherVars, alert, viewVars,
                 leaders, isAdmin, formVars, showEditTeams, scoreVars, job,
                 store, request, writes>>

\* EditTeamsModal.handleIncrement, Enter in the custom increment input with a
\* number in it: Math.max(0, (count || 0) + delta).
EditTeamsIncrement ==
  /\ alert = NoAlert
  /\ showEditTeams /\ CanWrite
  /\ \E teamId \in DOMAIN teamEdits, bookType \in InputCategories,
        value \in InputTexts :
       /\ ~parseInt(value).nan
       /\ OrZero(teamEdits[teamId], bookType) + parseInt(value).v <= MaxCount
       /\ teamEdits' =
            [teamEdits EXCEPT ![teamId] =
               Spread(@, (bookType :>
                 Max(0, OrZero(@, bookType) + parseInt(value).v)))]
  /\ UNCHANGED <<statsVars, loginVars, leaderVars, otherVars, alert, viewVars,
                 leaders, isAdmin, formVars, showEditTeams, scoreVars, job,
                 store, request, writes>>

\* Object.keys(teamEdits) in insertion order, which is the order of teams.
EditedIds == SelectSeq([i \in 1..Len(teams) |-> teams[i].id],
                       LAMBDA id : id \in DOMAIN teamEdits)

\* EditTeamsModal.handleUpdate: one update per edited team that is in teams,
\* handed to onUpdate. Without a team the loop is empty and the modal closes.
EditTeamsUpdate ==
  LET updates == [i \in 1..Len(EditedIds) |->
                    [teamId |-> EditedIds[i], books |-> teamEdits[EditedIds[i]]]]
  IN  /\ alert = NoAlert
      /\ showEditTeams /\ job.kind = "none" /\ CanWrite
      /\ IF updates = <<>>
         THEN /\ showEditTeams' = FALSE
              /\ teamEdits' = EmptyObject
              /\ UNCHANGED <<job, writes>>
         ELSE /\ job' = [kind |-> "editTeams", updates |-> updates,
                         teamsAtClick |-> teams, aliased |-> TRUE]
              /\ writes' = writes + 1
              /\ UNCHANGED <<showEditTeams, teamEdits>>
      /\ UNCHANGED <<statsVars, loginVars, leaderVars, otherVars, alert,
                     viewVars, leaders, isAdmin, formVars, scoreVars, store,
                     request>>

\* Mutant: a failure does not end the loop.
EditTeamsStepGoesOn ==
  LET update == Head(job.updates)
      done == Len(job.updates) = 1
      sent(ok) == Request("EditTeamsModal.onUpdate", update, "updateTeam",
                          [teamId |-> update.teamId,
                           teamData |-> [books |-> update.books]], ok)
  IN  /\ alert = NoAlert
      /\ job.kind = "editTeams"
      /\ \/ /\ update.teamId \in DOMAIN store
            /\ store' = UpdateDoc(store, update.teamId, [books |-> update.books])
            /\ request' = sent(TRUE)
            /\ job' = IF done THEN NoJob
                      ELSE [job EXCEPT !.updates = Tail(job.updates)]
            /\ showEditTeams' = IF done THEN FALSE ELSE showEditTeams
            /\ teamEdits' = IF done THEN EmptyObject ELSE teamEdits
            /\ alert' = NoAlert
         \/ /\ job' = IF done THEN NoJob
                      ELSE [job EXCEPT !.updates = Tail(job.updates)]
            /\ request' = sent(FALSE)
            /\ alert' = "Failed to update teams. Please try again."
            /\ UNCHANGED <<store, showEditTeams, teamEdits>>
      /\ UNCHANGED <<statsVars, loginVars, leaderVars, otherVars, viewVars,
                     leaders, isAdmin, formVars, scoreVars, writes>>

\* One turn of the loop of the Edit Teams onUpdate: await updateTeam(teamId,
\* { books }). After the last one the modal closes; a failure ends the loop.
EditTeamsStep ==
  LET update == Head(job.updates)
      done == Len(job.updates) = 1
      sent(ok) == Request("EditTeamsModal.onUpdate", update, "updateTeam",
                          [teamId |-> update.teamId,
                           teamData |-> [books |-> update.books]], ok)
  IN  /\ alert = NoAlert
      /\ job.kind = "editTeams"
      /\ \/ /\ update.teamId \in DOMAIN store
            /\ store' = UpdateDoc(store, update.teamId, [books |-> update.books])
            /\ request' = sent(TRUE)
            /\ job' = IF done THEN NoJob
                      ELSE [job EXCEPT !.updates = Tail(job.updates)]
            /\ showEditTeams' = IF done THEN FALSE ELSE showEditTeams
            /\ teamEdits' = IF done THEN EmptyObject ELSE teamEdits
            /\ alert' = NoAlert
         \/ /\ job' = NoJob
            /\ request' = sent(FALSE)
            /\ alert' = "Failed to update teams. Please try again."
            /\ UNCHANGED <<store, showEditTeams, teamEdits>>
      /\ UNCHANGED <<statsVars, loginVars, leaderVars, otherVars, viewVars,
                     leaders, isAdmin, formVars, scoreVars, writes>>

\* ----------------------------------------------------- AdminUpdateScoreModal

\* The Update Scores button; the modal's effect initialises the scores.
OpenAdminUpdateScore ==
  /\ alert = NoAlert
  /\ isAdmin /\ NoModalOpen /\ CanWrite
  /\ showAdminUpdateScore' = TRUE
  /\ scoreUpdates' = InitialUpdates(teams)
  /\ modalDate' = Today
  /\ UNCHANGED <<statsVars, loginVars, leaderVars, otherVars, alert, viewVars,
                 leaders, isAdmin, formVars, editTeamsVars, job, store,
                 request, writes>>

\* onCancel of the Update Scores modal.
CancelAdminUpdateScore ==
  /\ alert = NoAlert
  /\ showAdminUpdateScore
  /\ showAdminUpdateScore' = FALSE
  /\ scoreUpdates' = EmptyObject
  /\ modalDate' = Today
  /\ UNCHANGED <<statsVars, loginVars, leaderVars, otherVars, alert, viewVars,
                 leaders, isAdmin, formVars, editTeamsVars, job, store,
                 request, writes>>

\* onChange of the date input of the modal.
SetModalDate ==
  /\ alert = NoAlert
  /\ showAdminUpdateScore /\ CanWrite
  /\ \E date \in Dates : modalDate' = date
  /\ UNCHANGED <<statsVars, loginVars, leaderVars, otherVars, alert, viewVars,
                 leaders, isAdmin, formVars, editTeamsVars,
                 showAdminUpdateScore, scoreUpdates, job, store, request,
                 writes>>

\* AdminUpdateScoreModal.handleBookChange: Math.max(0, parseInt(value) || 0).
ScoreBookChange ==
  /\ alert = NoAlert
  /\ showAdminUpdateScore /\ CanWrite
  /\ \E teamId \in DOMAIN scoreUpdates, bookType \in InputCategories,
        value \in InputTexts :
       scoreUpdates' =
         [scoreUpdates EXCEPT ![teamId] =
            Spread(@, (bookType :> Max(0, ParsedOrZero(value))))]
  /\ UNCHANGED <<statsVars, loginVars, leaderVars, otherVars, alert, viewVars,
                 leaders, isAdmin, formVars, editTeamsVars,
                 showAdminUpdateScore, modalDate, job, store, request, writes>>

\* Object.keys(scoreUpdates) whose counts are not all zero.
ScoredIds ==
  SelectSeq(SelectSeq(TeamIdSeq, LAMBDA id : id \in DOMAIN scoreUpdates),
            LAMBDA id : \E c \in DOMAIN scoreUpdates[id] :
                          scoreUpdates[id][c] > 0)

\* AdminUpdateScoreModal.handleUpdate: with no count entered there is only an
\* alert; otherwise the updates go to onUpdate.
AdminUpdateScoreUpdate ==
  LET updates == [i \in 1..Len(ScoredIds) |->
                    [teamId |-> ScoredIds[i], date |-> modalDate,
                     books |-> scoreUpdates[ScoredIds[i]]]]
  IN  /\ alert = NoAlert
      /\ showAdminUpdateScore /\ job.kind = "none" /\ CanWrite
      /\ IF updates = <<>>
         THEN /\ alert' = "Please enter at least one book count for any team"
              /\ UNCHANGED <<job, writes>>
         ELSE /\ job' = [kind |-> "updateScore", updates |-> updates,
                         teamsAtClick |-> teams, aliased |-> TRUE]
              /\ writes' = writes + 1
              /\ alert' = NoAlert
      /\ UNCHANGED <<statsVars, loginVars, leaderVars, otherVars, viewVars,
                     leaders, isAdmin, formVars, editTeamsVars, scoreVars,
                     store, request>>

\* Mutant: the entry is added at the end even when the date has one.
HistoryWithPushOnly(history, date, books) ==
  Append(history, WithDate(date, books))

\* The history of a team with the entry of a date replaced, or added at the
\* end when the date has no entry yet.
HistoryWith(history, date, books) ==
  IF \E i \in 1..Len(history) : DateIs(history[i], date)
  THEN LET existingIndex ==
             CHOOSE i \in 1..Len(history) :
               /\ DateIs(history[i], date)
               /\ \A j \in 1..(i - 1) : ~DateIs(history[j], date)
       IN  [history EXCEPT ![existingIndex] = WithDate(date, books)]
  ELSE Append(history, WithDate(date, books))

\* team.booksHistory || [], and a history that is no array becomes one entry
\* with today's date and the flat counts.
HistoryOf(team) ==
  IF "booksHistory" \notin DOMAIN team THEN <<>>
  ELSE IF IsArray(team.booksHistory) THEN team.booksHistory.items
  ELSE <<WithDate(Today, BooksOrEmpty(team))>>

\* The teams of a list with the array of one team's history changed in place.
WithHistoryInPlace(list, teamId, history) ==
  [i \in 1..Len(list) |->
     IF /\ list[i].id = teamId
        /\ "booksHistory" \in DOMAIN list[i]
        /\ IsArray(list[i].booksHistory)
     THEN Spread(list[i], [booksHistory |-> Arr(history)])
     ELSE list[i]]

\* One turn of the loop of the Update Scores onUpdate. The team is looked up
\* in the teams of the render that made the callback; its history array, when
\* it has one, is changed in place, which the teams state sees while it still
\* holds that array; then await updateTeam(teamId, { booksHistory, books }).
\* A team that is not found is skipped. After the last turn the modal closes;
\* a failure ends the loop.
UpdateScoreStep ==
  LET update == Head(job.updates)
      done == Len(job.updates) = 1
      found == update.teamId \in IdsOf(job.teamsAtClick)
      team == TeamById(job.teamsAtClick, update.teamId)
      history == HistoryWith(HistoryOf(team), update.date, update.books)
      seen == WithHistoryInPlace(job.teamsAtClick, update.teamId, history)
      rest == [job EXCEPT !.updates = Tail(job.updates), !.teamsAtClick = seen]
      sent(ok) == Request("AdminUpdateScoreModal.onUpdate", update,
                          "updateTeam",
                          [teamId |-> update.teamId,
                           teamData |-> [booksHistory |-> Arr(history),
                                         books |-> update.books]], ok)
      closes == /\ showAdminUpdateScore' =
                     IF done THEN FALSE ELSE showAdminUpdateScore
                /\ scoreUpdates' = IF done THEN EmptyObject ELSE scoreUpdates
                /\ modalDate' = IF done THEN Today ELSE modalDate
  IN  /\ alert = NoAlert
      /\ job.kind = "updateScore"
      /\ IF ~found
         THEN /\ job' = IF done THEN NoJob
                        ELSE [job EXCEPT !.updates = Tail(job.updates)]
              /\ closes
              /\ UNCHANGED <<teams, store, request, alert>>
         ELSE /\ teams' = IF job.aliased
                          THEN WithHistoryInPlace(teams, update.teamId, history)
                          ELSE teams
              /\ \/ /\ update.teamId \in DOMAIN store
                    /\ store' = UpdateDoc(store, update.teamId,
                                          [booksHistory |-> Arr(history),
                                           books |-> update.books])
                    /\ request' = sent(TRUE)
                    /\ job' = IF done THEN NoJob ELSE rest
                    /\ closes
                    /\ alert' = NoAlert
                 \/ /\ job' = NoJob
                    /\ request' = sent(FALSE)
                    /\ alert' = "Failed to update scores. Please try again."
                    /\ UNCHANGED <<store, scoreVars>>
      /\ UNCHANGED <<statsVars, loginVars, leaderVars, otherVars, searchTerm,
                     filterLeader, sortBy, selectedDate, leaders, isAdmin,
                     formVars, editTeamsVars, writes>>

\* ---------------------------------------------------------------- the App

Next ==
  \/ DismissAlert
  \/ OnAuthChange
  \/ OnTeamsSnapshot
  \/ OnLeadersLoaded
  \/ UpdateBookCount
  \/ DeleteTeam
  \/ OpenAddTeam
  \/ OpenEditTeam
  \/ CancelTeamForm
  \/ FormSetName
  \/ FormSelectLeader
  \/ TeamFormBookChange
  \/ SubmitRejected
  \/ SubmitNewTeam
  \/ SubmitEditedTeam
  \/ OpenEditTeams
  \/ CancelEditTeams
  \/ EditTeamsBookChange
  \/ EditTeamsIncrement
  \/ EditTeamsUpdate
  \/ EditTeamsStep
  \/ OpenAdminUpdateScore
  \/ CancelAdminUpdateScore
  \/ SetModalDate
  \/ ScoreBookChange
  \/ AdminUpdateScoreUpdate
  \/ UpdateScoreStep

Spec == InitSpec /\ [][Next]_vars

\* ------------------------------------- the team form of the first version
\* src/src/App.js mounts the same form without the effect on [team, leaders]
\* and without the leader check.

\* loadLeaders of the first version resolves: setLeaders(names). The mounted
\* form keeps its useState value.
LoadLeadersV1 ==
  /\ alert = NoAlert
  /\ ~leadersLoaded
  /\ leadersLoaded' = TRUE
  /\ leaders' = RosterOf(leaderDocs)
  /\ UNCHANGED <<statsVars, loginVars, otherVars, alert, viewVars, isAdmin,
                 formVars, editTeamsVars, scoreVars, job, store, request,
                 writes, leaderDocs, newLeader>>

\* TeamForm.handleSubmit of the first version, then handleSaveTeam(formData).
handleSubmitV1 ==
  /\ alert = NoAlert
  /\ showAddTeam /\ CanWrite
  /\ IF TrimIsEmpty(formData.name)
     THEN /\ alert' = "Please enter a team name"
          /\ UNCHANGED <<formVars, store, request, writes>>
     ELSE /\ writes' = writes + 1
          /\ LET fn == IF editingTeam # Null THEN "updateTeam" ELSE "addTeam"
                 args == IF editingTeam # Null
                         THEN [teamId |-> editingTeam.id, teamData |-> formData]
                         ELSE [teamData |-> formData]
                 sent(ok) == Request("handleSaveTeam", [teamData |-> formData],
                                     fn, args, ok)
             IN  \/ /\ IF editingTeam # Null
                       THEN /\ editingTeam.id \in DOMAIN store
                            /\ store' = UpdateDoc(store, editingTeam.id, formData)
                       ELSE \E teamId \in TeamIds \ DOMAIN store :
                              store' = AddDoc(store, teamId, formData)
                    /\ request' = sent(TRUE)
                    /\ showAddTeam' = FALSE
                    /\ editingTeam' = Null
                    /\ formData' = Null
                    /\ alert' = NoAlert
                 \/ /\ request' = sent(FALSE)
                    /\ alert' = "Error saving team. Please try again."
                    /\ UNCHANGED <<formVars, store>>
  /\ UNCHANGED <<statsVars, loginVars, leaderVars, otherVars, viewVars,
                 leaders, isAdmin, editTeamsVars, scoreVars, job>>

NextV1 ==
  \/ DismissAlert
  \/ OnAuthChange
  \/ OnTeamsSnapshot
  \/ LoadLeadersV1
  \/ OpenAddTeam
  \/ CancelTeamForm
  \/ FormSetName
  \/ FormSelectLeader
  \/ TeamFormBookChange
  \/ handleSubmitV1

SpecV1 == InitSpec /\ [][NextV1]_vars

\* ------------------------------------------------------- a second session
\* Another admin runs the same dashboard on the same store: its teams cache,
\* its roster and its requests. Its alerts are left out: they only make it
\* wait.

\* The category whose buttons the second admin uses.
OtherCategories == {"BB"}

\* getTeams callback of the second session.
OtherTeamsSnapshot ==
  /\ otherTeams # Snapshot
  /\ otherTeams' = Snapshot
  /\ UNCHANGED <<statsVars, loginVars, viewVars, leaders, isAdmin, formVars,
                 editTeamsVars, scoreVars, job, store, request, alert, writes,
                 leaderVars, otherLeaders, otherLoaded, otherRequest,
                 otherWrites>>

\* loadLeaders of the second session.
OtherLeadersLoaded ==
  /\ ~otherLoaded
  /\ otherLoaded' = TRUE
  /\ otherLeaders' = RosterOf(leaderDocs)
  /\ UNCHANGED <<statsVars, loginVars, viewVars, leaders, isAdmin, formVars,
                 editTeamsVars, scoreVars, job, store, request, alert, writes,
                 leaderVars, otherTeams, otherRequest, otherWrites>>

\* handleUpdateBookCount of the second session.
OtherUpdateBookCount ==
  \E teamId \in IdsOf(otherTeams), bookType \in OtherCategories,
     delta \in {1, -1}, ok \in BOOLEAN :
    LET currentBooks == BooksOrEmpty(TeamById(otherTeams, teamId))
        newCount == NewCount(currentBooks, bookType, delta)
        newBooks == Spread(currentBooks, (bookType :> newCount))
        accepted == ok /\ teamId \in DOMAIN store
    IN  /\ otherWrites < MaxWrites
        /\ newCount <= MaxCount
        /\ otherTeams' = [i \in 1..Len(otherTeams) |->
                            IF otherTeams[i].id = teamId
                            THEN Spread(otherTeams[i], [books |-> newBooks])
                            ELSE otherTeams[i]]
        /\ otherWrites' = otherWrites + 1
        /\ otherRequest' = Request("handleUpdateBookCount",
                                   [teamId |-> teamId, bookType |-> bookType,
                                    delta |-> delta],
                                   "updateTeam",
                                   [teamId |-> teamId,
                                    teamData |-> [books |-> newBooks]],
                                   accepted)
        /\ store' = IF accepted
                    THEN UpdateDoc(store, teamId, [books |-> newBooks])
                    ELSE store
        /\ UNCHANGED <<statsVars, loginVars, viewVars, leaders, isAdmin,
                       formVars, editTeamsVars, scoreVars, job, request, alert,
                       writes, leaderVars, otherLeaders, otherLoaded>>

\* handleAddLeader of the second session.
OtherAddLeader ==
  \E name \in InputLeaders, ok \in BOOLEAN :
    /\ otherWrites < MaxWrites
    /\ name \notin RangeOf(otherLeaders)
    /\ otherWrites' = otherWrites + 1
    /\ otherRequest' = Request("handleAddLeader", [newLeader |-> name],
                               "addLeader", [leaderName |-> name], ok)
    /\ IF ok
       THEN /\ \E id \in FreshLeaderIds(leaderDocs) :
                 leaderDocs' = AddDoc(leaderDocs, id, name)
            /\ otherLeaders' = Append(otherLeaders, name)
       ELSE UNCHANGED <<leaderDocs, otherLeaders>>
    /\ UNCHANGED <<statsVars, loginVars, viewVars, leaders, isAdmin, formVars,
                   editTeamsVars, scoreVars, job, store, request, alert,
                   writes, leadersLoaded, newLeader, otherTeams, otherLoaded>>

\* handleDeleteLeader of the second session.
OtherDeleteLeader ==
  \E leader \in RangeOf(otherLeaders), ok \in BOOLEAN :
    LET found == {id \in DOMAIN leaderDocs : leaderDocs[id] = leader}
    IN  /\ otherWrites < MaxWrites
        /\ otherWrites' = otherWrites + 1
        /\ IF ok /\ found # {}
           THEN \E id \in found :
                  /\ \A other \in found : id <= other
                  /\ leaderDocs' = DeleteDoc(leaderDocs, id)
                  /\ otherRequest' =
                       Request("handleDeleteLeader", [leader |-> leader],
                               "deleteLeader", [leaderId |-> id], TRUE)
                  /\ otherLeaders' =
                       SelectSeq(otherLeaders, LAMBDA l : l # leader)
           ELSE UNCHANGED <<leaderDocs, otherLeaders, otherRequest>>
        /\ UNCHANGED <<statsVars, loginVars, viewVars, leaders, isAdmin,
                       formVars, editTeamsVars, scoreVars, job, store, request,
                       alert, writes, leadersLoaded, newLeader, otherTeams,
                       otherLoaded>>

\* Two sessions at the + and - buttons of the rows.
NextSessions ==
  \/ DismissAlert
  \/ OnAuthChange
  \/ OnTeamsSnapshot
  \/ UpdateBookCount
  \/ OtherTeamsSnapshot
  \/ OtherUpdateBookCount

SpecSessions == InitSpec /\ [][NextSessions]_vars

\* Two sessions in the leader manager.
NextRosters ==
  \/ DismissAlert
  \/ OnAuthChange
  \/ OnLeadersLoaded
  \/ AddLeader
  \/ DeleteLeader
  \/ OtherLeadersLoaded
  \/ OtherAddLeader
  \/ OtherDeleteLeader

SpecRosters == InitSpec /\ [][NextRosters]_vars

\* ---------------------------------------------------- claims: admin operations

NonNegativeCounts(counts) ==
  \A c \in DOMAIN counts \cap Categories : counts[c] >= 0

\* Every category count of a team, flat or in a dated entry, is at least 0.
NonNegativeTeam(team) ==
  /\ NonNegativeCounts(BooksOrEmpty(team))
  /\ \A i \in 1..Len(HistoryOf(team)) : NonNegativeCounts(HistoryOf(team)[i])

\* C4: in every reachable state, whatever the admin has created, edited,
\* incremented, bulk-edited or scored by date, every category count of every
\* team is a non-negative integer, in the local cache and in the store.
C4_CountsAreNonNegative ==
  /\ \A i \in 1..Len(teams) : NonNegativeTeam(teams[i])
  /\ \A id \in DOMAIN store : NonNegativeTeam(store[id])

\* C5: every step of handleUpdateBookCount(teamId, bookType, delta) sets the
\* count of the category to max(0, old count + delta), a missing count being
\* 0, in the local cache and in the request it sends; that count is never
\* negative.
C5_UpdateBookCountClamps ==
  [][\A teamId \in TeamIds, bookType \in InputCategories, delta \in {1, -1},
        ok \in BOOLEAN :
       handleUpdateBookCount(teamId, bookType, delta, ok) =>
         LET old == OrZero(BooksOrEmpty(TeamById(teams, teamId)), bookType)
             expected == IF old + delta < 0 THEN 0 ELSE old + delta
         IN  /\ TeamById(teams', teamId).books[bookType] = expected
             /\ request'.fn = "updateTeam"
             /\ request'.args.teamId = teamId
             /\ request'.args.teamData.books[bookType] = expected
             /\ expected >= 0]_vars

\* The only writing operation so far is a decrement that failed, so the store
\* still holds the count the decrement started from: 0, and 0 was sent.
C5_Witness ==
  /\ writes = 1
  /\ request.from = "handleUpdateBookCount"
  /\ request.call.delta = -1
  /\ ~request.ok
  /\ request.call.teamId \in DOMAIN store
  /\ OrZero(BooksOrEmpty(store[request.call.teamId]),
            request.call.bookType) = 0
  /\ request.args.teamData.books[request.call.bookType] = 0

\* The persisted history of a team: its entries, none when it has no array.
PersistedHistory(id) ==
  IF "booksHistory" \in DOMAIN store[id] /\ IsArray(store[id].booksHistory)
  THEN store[id].booksHistory.items
  ELSE <<>>

\* No two entries of the persisted history of a team have the same date.
OneEntryPerDate ==
  \A id \in DOMAIN store :
    \A i, j \in 1..Len(PersistedHistory(id)) :
      i < j => PersistedHistory(id)[i].date # PersistedHistory(id)[j].date

\* C14: the persisted history of a team has at most one entry per date, and
\* every successful by-date update writes the history it started from with
\* the entry of its date replaced by the submitted counts, or, when the date
\* had no entry, with exactly one entry added at the end.
C14_OneEntryPerDate ==
  /\ []OneEntryPerDate
  /\ [][(/\ UpdateScoreStep
         /\ Head(job.updates).teamId \in IdsOf(job.teamsAtClick)
         /\ request'.ok) =>
         LET update == Head(job.updates)
             entry == WithDate(update.date, update.books)
             before == HistoryOf(TeamById(job.teamsAtClick, update.teamId))
             after == store'[update.teamId].booksHistory.items
         IN  IF \E i \in 1..Len(before) : DateIs(before[i], update.date)
             THEN /\ Len(after) = Len(before)
                  /\ \A i \in 1..Len(before) :
                       after[i] = IF DateIs(before[i], update.date)
                                  THEN entry ELSE before[i]
             ELSE /\ Len(after) = Len(before) + 1
                  /\ SubSeq(after, 1, Len(before)) = before
                  /\ after[Len(after)] = entry]_vars

\* C14 witness: the team that had one entry, on the first date, was given
\* other scores for that date; the update succeeded and the history has one
\* entry, with the submitted counts.
C14_Witness ==
  /\ request.from = "AdminUpdateScoreModal.onUpdate"
  /\ request.ok
  /\ request.call.date = "2025-01-01"
  /\ request.call.teamId = "t2"
  /\ "t2" \in DOMAIN store
  /\ store["t2"].name = SeedHistoryTeam.name
  /\ DateIs(SeedHistoryTeam.booksHistory.items[1], "2025-01-01")
  /\ Len(PersistedHistory("t2")) = 1
  /\ PersistedHistory("t2")[1] = WithDate("2025-01-01", request.call.books)
  /\ PersistedHistory("t2")[1] # SeedHistoryTeam.booksHistory.items[1]

\* C15: submitting the team form with a name that is empty or only whitespace,
\* or with no leader selected, issues no addTeam/updateTeam request, persists
\* nothing and leaves the form open.
C15_InvalidSubmitIsBlocked ==
  [][(/\ SubmitRejected \/ SubmitNewTeam \/ SubmitEditedTeam \/ handleSubmitV1
      /\ TrimIsEmpty(formData.name) \/ formData.leader = "")
     => /\ request' = request
        /\ store' = store
        /\ showAddTeam']_vars

\* The alerts of the failed requests other than the per-category
\* increment/decrement.
FailureAlerts ==
  {"Error saving team. Please try again.",
   "Error deleting team. Please try again.",
   "Error adding leader. Please try again.",
   "Error deleting leader. Please try again.",
   "Failed to update teams. Please try again.",
   "Failed to update scores. Please try again."}

\* C16: when saving or deleting a team, adding or deleting a leader, a bulk
\* Edit Teams or a by-date score update fails, the local teams cache and the
\* local leader roster are what they were before the attempt.
C16_FailureLeavesLocalState ==
  [][alert' \in FailureAlerts => teams' = teams /\ leaders' = leaders]_vars

\* C17: the updates of a bulk update (Edit Teams, by-date scores) are sent one
\* after another, each persisted as it is accepted; when one fails, what was
\* persisted stays, the rest is never sent, one alert is raised and the modal
\* stays open.
C17_BulkUpdateStopsAtFailure ==
  [][(EditTeamsStep \/ UpdateScoreStep) =>
       LET update == Head(job.updates)
       IN  /\ request' # request => request'.call = update
           /\ alert' = NoAlert =>
                /\ job' # NoJob => job'.updates = Tail(job.updates)
                /\ request' # request =>
                     /\ request'.ok
                     /\ store'[update.teamId].books = update.books
                     /\ \A id \in DOMAIN store \ {update.teamId} :
                          store'[id] = store[id]
           /\ alert' # NoAlert =>
                /\ alert' \in {"Failed to update teams. Please try again.",
                               "Failed to update scores. Please try again."}
                /\ ~request'.ok
                /\ store' = store
                /\ job' = NoJob
                /\ showEditTeams' = showEditTeams
                /\ showAdminUpdateScore' = showAdminUpdateScore]_vars

\* The second update of an Edit Teams batch has failed: the first is
\* persisted, the second team is as it was, the modal is open.
C17_Witness ==
  /\ alert = "Failed to update teams. Please try again."
  /\ request.from = "EditTeamsModal.onUpdate"
  /\ ~request.ok
  /\ request.call.teamId = "t2"
  /\ job = NoJob
  /\ showEditTeams
  /\ store["t1"].books = teamEdits["t1"]
  /\ store["t1"].books # SeedLegacyTeam.books
  /\ store["t2"] = SeedHistoryTeam

\* C18: handleUpdateBookCount puts the new count in the local teams cache
\* whatever becomes of the request; a failed request only raises an alert, the
\* store keeps the old count and the cache the new one; the next notification
\* of the teams subscription makes the cache the snapshot of the store.
C18_OptimisticUpdateIsNotRolledBack ==
  [][/\ UpdateBookCount =>
          LET call == request'.call
              before == BooksOrEmpty(TeamById(teams, call.teamId))
              after == TeamById(teams', call.teamId).books
          IN  /\ after = Spread(before,
                                (call.bookType :>
                                   NewCount(before, call.bookType, call.delta)))
              /\ request'.ok =>
                   /\ store'[call.teamId].books = after
                   /\ alert' = NoAlert
              /\ ~request'.ok =>
                   /\ store' = store
                   /\ alert' = "Failed to update book count. Please try again."
     /\ OnTeamsSnapshot => teams' = Snapshot /\ store' = store]_vars

\* An increment has failed and left the cache ahead of the store; the alert
\* is closed and the next notification has made the cache the snapshot again.
C18_Witness ==
  /\ request.from = "handleUpdateBookCount"
  /\ ~request.ok
  /\ request.call.delta = 1
  /\ request.call.teamId \in DOMAIN store
  /\ alert = NoAlert
  /\ teams = Snapshot
  /\ store[request.call.teamId].books # request.args.teamData.books

\* C19: an update of a team's book data that a session issues from its own
\* cache is accepted whatever the other session has written meanwhile, and
\* the persisted book data are then exactly the mapping that request carries
\* (the whole field is replaced, nothing is merged): the later write wins.
C19_LaterWriteWins ==
  [][/\ (UpdateBookCount /\ request'.ok) =>
          LET call == request'.call
              cached == BooksOrEmpty(TeamById(teams, call.teamId))
          IN  store'[call.teamId].books =
                Spread(cached,
                       (call.bookType :>
                          NewCount(cached, call.bookType, call.delta)))
     /\ (OtherUpdateBookCount /\ otherWrites' # otherWrites
                              /\ otherRequest'.ok) =>
          LET call == otherRequest'.call
              cached == BooksOrEmpty(TeamById(otherTeams, call.teamId))
          IN  store'[call.teamId].books =
                Spread(cached,
                       (call.bookType :>
                          NewCount(cached, call.bookType, call.delta)))
    ]_vars

\* Both sessions have incremented a count of team t1, the first one MB and
\* then the second one BB from a cache that had not seen the first write:
\* both were accepted, and the store holds the second mapping, without the
\* MB count of the first.
C19_Witness ==
  /\ request.from = "handleUpdateBookCount" /\ request.ok
  /\ otherRequest.from = "handleUpdateBookCount" /\ otherRequest.ok
  /\ request.call = [teamId |-> "t1", bookType |-> "MB", delta |-> 1]
  /\ otherRequest.call = [teamId |-> "t1", bookType |-> "BB", delta |-> 1]
  /\ store["t1"].books = otherRequest.args.teamData.books
  /\ store["t1"].books["MB"] # request.args.teamData.books["MB"]

\* C20: no two documents of the leaders collection have the same name,
\* whatever the two sessions add and delete.
C20_LeaderNamesAreUnique ==
  \A id \in DOMAIN leaderDocs, other \in DOMAIN leaderDocs :
    id # other => leaderDocs[id] # leaderDocs[other]

\* C21: a request to create, update or delete a team or a leader is sent only
\* while a user is signed in, also when the sign-out arrives while an admin
\* modal is open.
C21_RequestsOnlyWhileSignedIn ==
  [][request' # request => isAdmin]_vars

\* C22: no payload passed to addTeam or updateTeam holds the derived fields
\* totalBooks or totalPoints.
C22_DerivedStatsNotPersisted ==
  request.fn \in {"addTeam", "updateTeam"} =>
    /\ "totalBooks" \notin DOMAIN request.args.teamData
    /\ "totalPoints" \notin DOMAIN request.args.teamData

\* C23: after a successful edit of a team through the team form and the
\* snapshot that follows it, the totalPoints and totalBooks shown for that
\* team under the current date selection are those of the submitted counts.
C23_FormEditReplacesBookData ==
  (/\ request.from = "handleSaveTeam"
   /\ request.fn = "updateTeam"
   /\ request.ok
   /\ teams = Snapshot
   /\ request.args.teamId \in IdsOf(teams)) =>
    LET shown == TeamWithStats(TeamById(teams, request.args.teamId),
                               selectedDate)
        submitted == calculateStats(request.args.teamData.books, selectedDate)
    IN  /\ shown.totalPoints = submitted.totalPoints
        /\ shown.totalBooks = submitted.totalBooks

\* The sum over the six categories of count x equivalence factor.
EquivalentBooks(m) ==
    OrZero(m, "Bhagavatam") * 18 + OrZero(m, "CC") * 9 + OrZero(m, "MBB") * 1
  + OrZero(m, "BB") * 1 + OrZero(m, "MB") * 1 + OrZero(m, "SB") * 1

\* The equivalent books of the entries a date filter selects, added up.
RECURSIVE EquivalentBooksOfSelected(_, _)
EquivalentBooksOfSelected(items, specificDate) ==
  IF items = <<>> THEN 0
  ELSE (IF specificDate = NoDate \/ DateIs(Head(items), specificDate)
        THEN EquivalentBooks(Head(items)) ELSE 0)
       + EquivalentBooksOfSelected(Tail(items), specificDate)

\* The counts of a mapping added up as they are.
RECURSIVE RawBooks(_, _)
RawBooks(m, keys) ==
  IF keys = {} THEN 0
  ELSE LET k == CHOOSE key \in keys : TRUE
       IN  m[k] + RawBooks(m, keys \ {k})

AdminAccount == [email |-> "admin@example.org", password |-> "secret"]

InputEmails == {"admin@example.org", "guest@example.org"}

InputPasswords == {"secret", "guess"}

\* How signInWithEmailAndPassword can end for what was typed: resolved, or
\* rejected for one reason or another.
LoginOutcomes(typedEmail, typedPassword) ==
  {"auth/network-request-failed"} \cup
  (IF typedEmail # AdminAccount.email THEN {"auth/user-not-found"}
   ELSE IF typedPassword # AdminAccount.password THEN {"auth/wrong-password"}
   ELSE {"ok"})

\* The Admin Login button, shown while nobody is signed in.
OpenLogin ==
  /\ alert = NoAlert
  /\ ~isAdmin /\ ~showLogin
  /\ showLogin' = TRUE
  /\ UNCHANGED <<statsVars, viewVars, leaders, isAdmin, formVars,
                 editTeamsVars, scoreVars, job, store, request, alert, writes,
                 leaderVars, otherVars, email, password, error, loginResult>>

\* onChange of the email input.
SetEmail ==
  /\ alert = NoAlert
  /\ showLogin
  /\ \E text \in InputEmails : email' = text
  /\ UNCHANGED <<statsVars, viewVars, leaders, isAdmin, formVars,
                 editTeamsVars, scoreVars, job, store, request, alert, writes,
                 leaderVars, otherVars, showLogin, password, error,
                 loginResult>>

\* onChange of the password input.
SetPassword ==
  /\ alert = NoAlert
  /\ showLogin
  /\ \E text \in InputPasswords : password' = text
  /\ UNCHANGED <<statsVars, viewVars, leaders, isAdmin, formVars,
                 editTeamsVars, scoreVars, job, store, request, alert, writes,
                 leaderVars, otherVars, showLogin, email, error, loginResult>>

\* Mutant: the message is the reason of the rejection.
handleLoginTellsReason ==
  /\ alert = NoAlert
  /\ showLogin
  /\ \E outcome \in LoginOutcomes(email, password) :
       /\ loginResult' = outcome
       /\ IF outcome = "ok"
          THEN /\ error' = ""
               /\ showLogin' = FALSE
               /\ email' = ""
               /\ password' = ""
          ELSE /\ error' = outcome
               /\ UNCHANGED <<showLogin, email, password>>
  /\ UNCHANGED <<statsVars, viewVars, leaders, isAdmin, formVars,
                 editTeamsVars, scoreVars, job, store, request, alert, writes,
                 leaderVars, otherVars>>

\* handleLogin(): setError(''), await loginUser(email, password), then the
\* modal closes and the inputs are cleared; a rejection sets the message.
handleLogin ==
  /\ alert = NoAlert
  /\ showLogin
  /\ \E outcome \in LoginOutcomes(email, password) :
       /\ loginResult' = outcome
       /\ IF outcome = "ok"
          THEN /\ error' = ""
               /\ showLogin' = FALSE
               /\ email' = ""
               /\ password' = ""
          ELSE /\ error' = "Invalid credentials. Please try again."
               /\ UNCHANGED <<showLogin, email, password>>
  /\ UNCHANGED <<statsVars, viewVars, leaders, isAdmin, formVars,
                 editTeamsVars, scoreVars, job, store, request, alert, writes,
                 leaderVars, otherVars>>

\* The Cancel button of the login modal.
CancelLogin ==
  /\ alert = NoAlert
  /\ showLogin
  /\ showLogin' = FALSE
  /\ error' = ""
  /\ UNCHANGED <<statsVars, viewVars, leaders, isAdmin, formVars,
                 editTeamsVars, scoreVars, job, store, request, alert, writes,
                 leaderVars, otherVars, email, password, loginResult>>

\* handleLogout(): await logoutUser(), then setIsAdmin(false); a rejection is
\* only logged.
handleLogout ==
  /\ alert = NoAlert
  /\ isAdmin
  /\ \E ok \in BOOLEAN : isAdmin' = IF ok THEN FALSE ELSE isAdmin
  /\ UNCHANGED <<statsVars, viewVars, leaders, formVars, editTeamsVars,
                 scoreVars, job, store, request, alert, writes, leaderVars,
                 otherVars, loginVars>>

NextLogin ==
  \/ OnAuthChange
  \/ OpenLogin
  \/ SetEmail
  \/ SetPassword
  \/ handleLogin
  \/ CancelLogin
  \/ handleLogout

SpecLogin == InitSpec /\ [][NextLogin]_vars

\* C25: a failed login shows one message whatever the reason, leaves the
\* login modal open and does not sign the session in; isAdmin becomes true
\* only through the auth callback.
C25_LoginFailureIsGeneric ==
  [][/\ handleLogin =>
          /\ isAdmin' = isAdmin
          /\ loginResult' # "ok" =>
               /\ error' = "Invalid credentials. Please try again."
               /\ showLogin'
     /\ (isAdmin' /\ ~isAdmin) => OnAuthChange]_vars

\* C25 witness: the password was wrong; the message is up, the modal open and
\* nobody signed in.
C25_Witness ==
  /\ loginResult = "auth/wrong-password"
  /\ error = "Invalid credentials. Please try again."
  /\ showLogin
  /\ ~isAdmin

\* C26: the delete-leader flow matches the name against the documents the
\* store holds at that moment: the deleted document has the name of the
\* selected leader and the name leaves the local roster; when the store has
\* no document of that name, nothing is requested and the roster stays.
C26_DeleteLeaderRefetches ==
  [][/\ (request' # request /\ request'.fn = "deleteLeader" /\ request'.ok) =>
          LET id == request'.args.leaderId
              name == request'.call.leader
          IN  /\ id \in DOMAIN leaderDocs
              /\ leaderDocs[id] = name
              /\ leaderDocs' = DeleteDoc(leaderDocs, id)
              /\ leaders' = SelectSeq(leaders, LAMBDA l : l # name)
              /\ name \notin RangeOf(leaders')
     /\ \A leader \in RangeOf(leaders) :
          (/\ handleDeleteLeader(leader, TRUE)
           /\ \A id \in DOMAIN leaderDocs : leaderDocs[id] # leader) =>
            UNCHANGED <<request, leaders, leaderDocs>>]_vars

\* C26 witness: a leader was deleted: the request went out, the document is
\* gone from the store and the name from the roster.
C26_Witness ==
  /\ request.from = "handleDeleteLeader"
  /\ request.fn = "deleteLeader"
  /\ request.ok
  /\ request.args.leaderId \notin DOMAIN leaderDocs
  /\ request.call.leader \notin RangeOf(leaders)
  /\ leaders # <<>>

\* C27: when the by-date update reaches a team with flat counts and no
\* history, the history stored afterwards holds the flat counts as an entry
\* of the day of the conversion next to the entry of the chosen date, when
\* the two dates differ.
C27_LegacyCountsEnterHistory ==
  [][(/\ request' # request
      /\ request'.from = "AdminUpdateScoreModal.onUpdate"
      /\ request'.ok
      /\ "booksHistory" \notin DOMAIN store[request'.args.teamId]
      /\ request'.call.date # Today) =>
       LET teamId == request'.args.teamId
           after == store'[teamId].booksHistory.items
       IN  /\ Len(after) = 2
           /\ \E i \in 1..Len(after) :
                after[i] = WithDate(Today, store[teamId].books)
           /\ \E i \in 1..Len(after) :
                after[i] = WithDate(request'.call.date, request'.call.books)]_vars

\* C28: for a team of either shape, an accepted increment of a category
\* raises the totalPoints the ranked view shows for the team by the weight of
\* the category, and an accepted decrement of a count above 0 lowers it by
\* that weight.
C28_IncrementMovesShownPoints ==
  [][(UpdateBookCount /\ request'.ok) =>
       LET call == request'.call
           count == OrZero(BooksOrEmpty(TeamById(teams, call.teamId)),
                           call.bookType)
           before == TeamWithStats(TeamById(teams, call.teamId),
                                   selectedDate).totalPoints
           after == TeamWithStats(TeamById(teams', call.teamId),
                                  selectedDate).totalPoints
       IN  /\ call.delta = 1 => after = before + BOOK_VALUES[call.bookType]
           /\ (call.delta = -1 /\ count > 0) =>
                after = before - BOOK_VALUES[call.bookType]]_vars

\* C29: in every row of the ranked view and of the export, for a team of
\* either shape, totalPoints is the sum over the six categories of the count
\* the row shows times the weight of the category.
C29_RowPointsMatchRowCounts ==
  LET rows == getFilteredTeams
      lines == exportToCSV
  IN  \A k \in 1..Len(rows) :
        /\ rows[k].totalPoints = WeightedSum(rows[k].books)
        /\ lines[k + 1][11] =
             toFixed2(lines[k + 1][4] * 288 + lines[k + 1][5] * 144
                      + lines[k + 1][6] * 8 + lines[k + 1][7] * 4
                      + lines[k + 1][8] * 2 + lines[k + 1][9] * 1)

\* ------------------------------------------- Edit Teams beside another session

\* One session in the Edit Teams modal while the other uses the buttons of
\* the rows.
NextEdits ==
  \/ DismissAlert
  \/ OnAuthChange
  \/ OnTeamsSnapshot
  \/ OpenEditTeams
  \/ CancelEditTeams
  \/ EditTeamsBookChange
  \/ EditTeamsIncrement
  \/ EditTeamsUpdate
  \/ EditTeamsStep
  \/ OtherTeamsSnapshot
  \/ OtherUpdateBookCount

SpecEdits == InitSpec /\ [][NextEdits]_vars

\* C30: submitting the Edit Teams modal leaves the stored counts of every
\* team alone whose counts were not changed in the modal, also when the other
\* session has updated the team since the modal took its counts from the
\* local cache.
C30_EditTeamsWritesOnlyEdited ==
  [][(EditTeamsStep /\ request'.ok) =>
       LET update == request'.call
       IN  /\ update.books = InitialEdits(job.teamsAtClick)[update.teamId] =>
                store'[update.teamId].books = store[update.teamId].books
           /\ \A id \in DOMAIN store \ {update.teamId} :
                store'[id] = store[id]]_vars

====
